---------------------------- MODULE Spec2Model ----------------------------
(***************************************************************************)
(* Verification model of the rust-calculator interpreter: the Lexer and    *)
(* the recursive-descent Parser of src/rust-calculator/src/main.rs and the *)
(* interactive session of src/rust-calculator/src/cli.rs.                  *)
(*                                                                         *)
(* Text is a sequence of one-character strings.  A panic is modelled as a  *)
(* value: every procedure that can panic returns its state with the field  *)
(* `panic` set, and every procedure entered in a panicked state returns it *)
(* unchanged, which is what unwinding does.                                *)
(***************************************************************************)
EXTENDS Integers, Sequences, FiniteSets, TLC

VARIABLES
    variables,  \* CalculatorCLI.variables: the session's snapshot
    line,       \* run: the trimmed line read in this iteration of the loop
    entry,      \* the statements the user typed to produce that line
    result,     \* run: the Result evaluate_expression returned
    stderr,     \* the message of the panic raised in this iteration, if any
    pc,         \* run: "readline", "read", "evaluated", "exited", "aborted";
                \* "lexing" while a Lexer alone is under test, "at_eof"
                \* once it has returned EOF, "past_eof" once called again
    nlines,     \* lines read so far
    lex,        \* a Lexer under test, its last token and its panic
    self,       \* a Parser run step by step: its fields and its panic
    stmt,       \* parse and statement run on it: position, locals, result
    sessions,   \* the CalculatorCLI values alive side by side, by number
    users,      \* bird-watching backend: the rows of table users
    observations, \* the rows of table observations
    trips,      \* the rows of table trips
    uploads,    \* the files of the upload directory
    calls,      \* the service calls in progress, by caller
    response    \* the service call that returned last, with its result

\* The state of the one interactive session, and the state of the backend.
repl == <<variables, line, entry, result, stderr, pc, nlines, lex, self, stmt>>
backend == <<users, observations, trips, uploads, calls, response>>

vars == <<variables, line, entry, result, stderr, pc, nlines, lex,
          self, stmt, sessions, users, observations, trips, uploads, calls, response>>

(***************************************************************************)
(* f64.  A tracked value is a dyadic rational s * n / d (d a power of two) *)
(* with n, d <= MaxMag, which an f64 holds exactly, or an infinity, or NaN.*)
(* Every other f64 (a rounded quotient, an irrational power, a magnitude   *)
(* beyond MaxMag) is the untracked value Unk; arithmetic on it stays       *)
(* untracked except where IEEE-754 fixes the result whatever the operand.  *)
(***************************************************************************)
MaxMag == 20000

Fin(s, n, d) == [k |-> "fin", s |-> s, n |-> n, d |-> d]
Inf(s) == [k |-> "inf", s |-> s, n |-> 1, d |-> 0]
NaN == [k |-> "nan", s |-> 1, n |-> 0, d |-> 0]
Unk == [k |-> "unk", s |-> 1, n |-> 0, d |-> 0]
Zero == Fin(1, 0, 1)
Num(i) == Fin(1, i, 1)

RECURSIVE GCD(_, _)
GCD(a, b) == IF b = 0 THEN a ELSE GCD(b, a % b)

RECURSIVE IsPow2(_)
IsPow2(d) == d = 1 \/ (d > 1 /\ d % 2 = 0 /\ IsPow2(d \div 2))

\* The f64 nearest to s * nn / dd, a fraction in lowest terms.
Lowest(s, nn, dd) ==
    IF IsPow2(dd) /\ nn <= MaxMag /\ dd <= MaxMag THEN Fin(s, nn, dd) ELSE Unk

\* The f64 nearest to the rational s * n / d (n >= 0, d > 0).
Norm(s, n, d) ==
    IF n = 0 THEN Fin(s, 0, 1)
    ELSE Lowest(s, n \div GCD(n, d), d \div GCD(n, d))

IsZero(a) == a.k = "fin" /\ a.n = 0
Tracked(a) == a.k \in {"fin", "inf", "nan"}

FNeg(a) == IF a.k \in {"nan", "unk"} THEN a ELSE [a EXCEPT !.s = -a.s]

FAdd(a, b) ==
    IF a.k = "nan" \/ b.k = "nan" THEN NaN
    ELSE IF a.k = "unk" \/ b.k = "unk" THEN Unk
    ELSE IF a.k = "inf" /\ b.k = "inf" THEN (IF a.s = b.s THEN a ELSE NaN)
    ELSE IF a.k = "inf" THEN a
    ELSE IF b.k = "inf" THEN b
    ELSE LET x == a.s * a.n * b.d + b.s * b.n * a.d
         IN IF x = 0
            THEN Fin(IF IsZero(a) /\ IsZero(b) /\ a.s = -1 /\ b.s = -1 THEN -1 ELSE 1, 0, 1)
            ELSE Norm(IF x < 0 THEN -1 ELSE 1, IF x < 0 THEN -x ELSE x, a.d * b.d)

FSub(a, b) == FAdd(a, FNeg(b))

FMul(a, b) ==
    IF a.k = "nan" \/ b.k = "nan" THEN NaN
    ELSE IF a.k = "unk" \/ b.k = "unk" THEN Unk
    ELSE IF a.k = "inf" \/ b.k = "inf"
         THEN (IF IsZero(a) \/ IsZero(b) THEN NaN ELSE Inf(a.s * b.s))
    ELSE Norm(a.s * b.s, a.n * b.n, a.d * b.d)

FDiv(a, b) ==
    IF a.k = "nan" \/ b.k = "nan" THEN NaN
    ELSE IF a.k = "unk" \/ b.k = "unk" THEN Unk
    ELSE IF a.k = "inf" THEN (IF b.k = "inf" THEN NaN ELSE Inf(a.s * b.s))
    ELSE IF b.k = "inf" THEN Fin(a.s * b.s, 0, 1)
    ELSE IF IsZero(b) THEN (IF IsZero(a) THEN NaN ELSE Inf(a.s * b.s))
    ELSE Norm(a.s * b.s, a.n * b.d, a.d * b.n)

\* fmod: the remainder has the sign of the dividend.
FRem(a, b) ==
    IF a.k = "nan" \/ b.k = "nan" THEN NaN
    ELSE IF a.k = "inf" \/ IsZero(b) THEN NaN
    ELSE IF a.k = "unk" \/ b.k = "unk" THEN Unk
    ELSE IF b.k = "inf" THEN a
    ELSE LET x == a.n * b.d
             y == b.n * a.d
         IN Norm(a.s, x % y, a.d * b.d)

IsInt(a) == a.k = "fin" /\ a.d = 1
IsOdd(a) == IsInt(a) /\ a.n % 2 = 1

\* acc * b^e for naturals, or MaxMag + 1 once the product exceeds MaxMag.
RECURSIVE NatPow(_, _, _)
NatPow(b, e, acc) ==
    IF e = 0 \/ b = 1 THEN acc
    ELSE IF acc * b > MaxMag THEN MaxMag + 1
    ELSE NatPow(b, e - 1, acc * b)

\* |a| compared with one, for a finite a: -1, 0 or 1.
CmpOne(a) == IF a.n < a.d THEN -1 ELSE IF a.n = a.d THEN 0 ELSE 1

\* sgn * (pn / pd), or its reciprocal when the exponent is negative.
PowRatio(sgn, pn, pd, positive) ==
    IF pn > MaxMag \/ pd > MaxMag THEN Unk
    ELSE IF positive THEN Norm(sgn, pn, pd) ELSE Norm(sgn, pd, pn)

\* f64::powf, which follows C's pow.
FPow(a, b) ==
    IF IsZero(b) THEN Num(1)
    ELSE IF a = Num(1) THEN Num(1)
    ELSE IF a.k = "nan" \/ b.k = "nan" THEN NaN
    ELSE IF a.k = "unk" \/ b.k = "unk" THEN Unk
    ELSE IF b.k = "inf"
         THEN (IF a.k = "inf" THEN (IF b.s = 1 THEN Inf(1) ELSE Zero)
               ELSE IF CmpOne(a) = 0 THEN Num(1)
               ELSE IF (CmpOne(a) = 1) = (b.s = 1) THEN Inf(1) ELSE Zero)
    ELSE LET sgn == IF a.s = -1 /\ IsOdd(b) THEN -1 ELSE 1
         IN IF a.k = "inf" THEN (IF b.s = 1 THEN Inf(sgn) ELSE Fin(sgn, 0, 1))
            ELSE IF IsZero(a) THEN (IF b.s = 1 THEN Fin(sgn, 0, 1) ELSE Inf(sgn))
            ELSE IF ~IsInt(b) THEN (IF a.s = -1 THEN NaN ELSE Unk)
            ELSE PowRatio(sgn, NatPow(a.n, b.n, 1), NatPow(a.d, b.n, 1), b.s = 1)


(***************************************************************************)
(* Characters.                                                             *)
(***************************************************************************)
AsciiDigits == {"0", "1", "2", "3", "4", "5", "6", "7", "8", "9"}

AsciiLetters ==
    {"a", "b", "c", "d", "e", "f", "g", "h", "i", "j", "k", "l", "m",
     "n", "o", "p", "q", "r", "s", "t", "u", "v", "w", "x", "y", "z",
     "A", "B", "C", "D", "E", "F", "G", "H", "I", "J", "K", "L", "M",
     "N", "O", "P", "Q", "R", "S", "T", "U", "V", "W", "X", "Y", "Z"}

is_ascii_digit(ch) == ch \in AsciiDigits
is_ascii_alphabetic(ch) == ch \in AsciiLetters

\* char::is_whitespace, on the ASCII range.
is_whitespace(ch) == ch \in {" ", "\t", "\n", "\r", "\f"}

DigitVal(ch) ==
    CASE ch = "0" -> 0 [] ch = "1" -> 1 [] ch = "2" -> 2 [] ch = "3" -> 3
      [] ch = "4" -> 4 [] ch = "5" -> 5 [] ch = "6" -> 6 [] ch = "7" -> 7
      [] ch = "8" -> 8 [] ch = "9" -> 9

\* Option<char>: <<>> is None, <<ch>> is Some(ch).
None == <<>>
Some(ch) == <<ch>>

\* Vec::get(i).copied(), indices from 0.
Get(input, i) == IF i < Len(input) THEN Some(input[i + 1]) ELSE None

(***************************************************************************)
(* str::parse::<f64>() on a string of digits and decimal points that       *)
(* starts with a digit: Ok exactly when it holds at most one point.        *)
(***************************************************************************)
RECURSIVE CountDots(_)
CountDots(str) ==
    IF str = <<>> THEN 0
    ELSE (IF Head(str) = "." THEN 1 ELSE 0) + CountDots(Tail(str))

\* The decimal str[i..] appended to n / d; over: n or d left the tracked
\* range, and n then only records whether a nonzero digit was read.
RECURSIVE Decimal(_, _, _, _, _, _)
Decimal(str, i, n, d, frac, over) ==
    IF i > Len(str)
    THEN (IF n = 0 THEN Zero ELSE IF over THEN Unk ELSE Norm(1, n, d))
    ELSE IF str[i] = "." THEN Decimal(str, i + 1, n, d, TRUE, over)
    ELSE LET n2 == n * 10 + DigitVal(str[i])
             d2 == IF frac THEN d * 10 ELSE d
         IN IF over \/ n2 > MaxMag \/ d2 > MaxMag
            THEN Decimal(str, i + 1, IF n2 = 0 THEN 0 ELSE 1, 1, frac, TRUE)
            ELSE Decimal(str, i + 1, n2, d2, frac, over)

\* A faulty variant of ParseOrZero: the points after the first are passed
\* over and the digits are kept.
ParseOrZero_lenient(number_str) ==
    Decimal(number_str, 1, 0, 1, FALSE, FALSE)

\* number_str.parse().unwrap_or(0.0)
ParseOrZero(number_str) ==
    IF CountDots(number_str) > 1 THEN Zero
    ELSE Decimal(number_str, 1, 0, 1, FALSE, FALSE)

(***************************************************************************)
(* Tokens and panics.                                                      *)
(***************************************************************************)
Tok(kind) == [kind |-> kind, value |-> Zero, name |-> ""]
NumberTok(v) == [kind |-> "Number", value |-> v, name |-> ""]
IdentifierTok(name) == [kind |-> "Identifier", value |-> Zero, name |-> name]
FunctionTok(name) == [kind |-> "Function", value |-> Zero, name |-> name]
EOF == Tok("EOF")

\* The names the lexer emits as Function tokens.
FunctionNames ==
    {"sin", "cos", "tan", "asin", "acos", "atan",
     "sqrt", "abs", "floor", "ceil", "round", "pi", "e"}

NoPanic == [kind |-> "none", arg |-> "", got |-> ""]
Panic(kind, arg, got) == [kind |-> kind, arg |-> arg, got |-> got]
Panicked(x) == x.panic.kind # "none"

(***************************************************************************)
(* Lexer.                                                                  *)
(***************************************************************************)
Lexer_new(input) ==
    [input |-> input, position |-> 0, current_char |-> Get(input, 0)]

advance(l) ==
    [l EXCEPT !.position = l.position + 1,
              !.current_char = Get(l.input, l.position + 1)]

RECURSIVE skip_whitespace(_)
skip_whitespace(l) ==
    IF l.current_char # None /\ is_whitespace(l.current_char[1])
    THEN skip_whitespace(advance(l))
    ELSE l

\* The while loop of read_number and the parse that follows it: the lexer
\* after the run of digits and points, and the value of the run.
RECURSIVE read_number_str(_, _)
read_number_str(l, number_str) ==
    IF l.current_char # None
       /\ (is_ascii_digit(l.current_char[1]) \/ l.current_char[1] = ".")
    THEN read_number_str(advance(l), Append(number_str, l.current_char[1]))
    ELSE [lexer |-> l, value |-> ParseOrZero(number_str)]

read_number(l) == read_number_str(l, <<>>)

RECURSIVE read_identifier_str(_, _)
read_identifier_str(l, identifier) ==
    IF l.current_char # None
       /\ (is_ascii_alphabetic(l.current_char[1])
           \/ is_ascii_digit(l.current_char[1]) \/ l.current_char[1] = "_")
    THEN read_identifier_str(advance(l), identifier \o l.current_char[1])
    ELSE [lexer |-> l, identifier |-> identifier]

read_identifier(l) == read_identifier_str(l, "")

SingleCharKind(ch) ==
    CASE ch = "+" -> "Plus" [] ch = "-" -> "Minus" [] ch = "*" -> "Multiply"
      [] ch = "/" -> "Divide" [] ch = "^" -> "Power" [] ch = "%" -> "Modulo"
      [] ch = "(" -> "LeftParen" [] ch = ")" -> "RightParen"
      [] ch = "=" -> "Assign" [] ch = ";" -> "Semicolon" [] ch = "," -> "Comma"

SingleChars == {"+", "-", "*", "/", "^", "%", "(", ")", "=", ";", ","}

\* The Number arm of next_token, r being what read_number returned.
number_token(r) ==
    [lexer |-> r.lexer, token |-> NumberTok(r.value), panic |-> NoPanic]

\* A faulty variant of identifier_token: every run is an Identifier.
identifier_token_never(r) ==
    [lexer |-> r.lexer, token |-> IdentifierTok(r.identifier), panic |-> NoPanic]

\* The alphabetic arm of next_token, r being what read_identifier returned.
identifier_token(r) ==
    [lexer |-> r.lexer,
     token |-> IF r.identifier \in FunctionNames
               THEN FunctionTok(r.identifier)
               ELSE IdentifierTok(r.identifier),
     panic |-> NoPanic]

\* A faulty variant of end_of_input: the cursor moves on at the end.
end_of_input_advance(l) ==
    [lexer |-> advance(l), token |-> EOF, panic |-> NoPanic]

\* next_token, lines 151 and 235: no character is left, and the loop is
\* not entered.
end_of_input(l) == [lexer |-> l, token |-> EOF, panic |-> NoPanic]

RECURSIVE next_token(_)

\* A faulty variant of next_token: a character that starts no token is
\* skipped like whitespace.
next_token_skip(l) ==
    IF l.current_char = None
    THEN end_of_input(l)
    ELSE LET ch == l.current_char[1]
         IN IF ch \in {" ", "\t", "\n"} THEN next_token(skip_whitespace(l))
            ELSE IF ch \in SingleChars
            THEN [lexer |-> advance(l), token |-> Tok(SingleCharKind(ch)),
                  panic |-> NoPanic]
            ELSE IF is_ascii_digit(ch)
            THEN number_token(read_number(l))
            ELSE IF is_ascii_alphabetic(ch) \/ ch = "_"
            THEN identifier_token(read_identifier(l))
            ELSE next_token(advance(l))

\* The lexer after the call, the token returned, and the panic if it panicked.
next_token(l) ==
    IF l.current_char = None
    THEN end_of_input(l)
    ELSE LET ch == l.current_char[1]
         IN IF ch \in {" ", "\t", "\n"} THEN next_token(skip_whitespace(l))
            ELSE IF ch \in SingleChars
            THEN [lexer |-> advance(l), token |-> Tok(SingleCharKind(ch)),
                  panic |-> NoPanic]
            ELSE IF is_ascii_digit(ch)
            THEN number_token(read_number(l))
            ELSE IF is_ascii_alphabetic(ch) \/ ch = "_"
            THEN identifier_token(read_identifier(l))
            ELSE [lexer |-> l, token |-> EOF,
                  panic |-> Panic("UnexpectedCharacter", ch, "")]


(***************************************************************************)
(* Parser.  A grammar procedure maps a parser to Ret(parser, value): the   *)
(* parser after the call and the f64 returned (Zero once panicked).        *)
(***************************************************************************)
EmptyMap == [name \in {} |-> Zero]

\* HashMap::insert
Insert(map, key, value) ==
    [name \in DOMAIN map \cup {key} |-> IF name = key THEN value ELSE map[name]]

Ret(p, v) == [p |-> p, v |-> IF Panicked(p) THEN Zero ELSE v]

\* The Parser built from what the first next_token returned.
Parser_first(r) ==
    [lexer |-> r.lexer, current_token |-> r.token,
     variables |-> EmptyMap, panic |-> r.panic]

Parser_new(lexer) == Parser_first(next_token(lexer))

\* The assignment in eat: current_token takes what next_token returned.
eat_next(p, r) ==
    [p EXCEPT !.lexer = r.lexer,
              !.current_token = IF Panicked(r) THEN @ ELSE r.token,
              !.panic = r.panic]

\* expected is the kind of the expected token: eat compares discriminants.
eat(p, expected) ==
    IF Panicked(p) THEN p
    ELSE IF p.current_token.kind = expected
    THEN eat_next(p, next_token(p.lexer))
    ELSE [p EXCEPT !.panic = Panic("Expected", expected, p.current_token.kind)]

\* The integer square root of n when n is a perfect square, else -1.
ExactSqrt(n) ==
    IF \E r \in 0..n : r * r = n THEN CHOOSE r \in 0..n : r * r = n ELSE -1

\* floor(n / d) for naturals n, d > 0.
FloorDiv(n, d) == n \div d
CeilDiv(n, d) == (n + d - 1) \div d

\* [value, panic]: the f64 returned, or the panic of the default arm.
call_function(name, arg) ==
    LET ok(v) == [value |-> v, panic |-> NoPanic]
        special == arg.k \in {"nan", "unk"}
        \* magnitude rounded toward zero, away from zero, to nearest (ties away)
        down == FloorDiv(arg.n, arg.d)
        up == CeilDiv(arg.n, arg.d)
        near == FloorDiv(2 * arg.n + arg.d, 2 * arg.d)
    IN CASE name \in {"sin", "tan", "asin", "atan"} ->
              ok(IF arg.k = "nan" THEN NaN
                 ELSE IF arg.k = "unk" THEN Unk
                 ELSE IF IsZero(arg) THEN arg
                 ELSE IF arg.k = "inf" /\ name # "atan" THEN NaN
                 ELSE IF name = "asin" /\ CmpOne(arg) = 1 THEN NaN
                 ELSE Unk)
         [] name = "cos" ->
              ok(IF arg.k = "nan" \/ arg.k = "inf" THEN NaN
                 ELSE IF arg.k = "unk" THEN Unk
                 ELSE IF IsZero(arg) THEN Num(1) ELSE Unk)
         [] name = "acos" ->
              ok(IF arg.k = "nan" \/ arg.k = "inf" THEN NaN
                 ELSE IF arg.k = "unk" THEN Unk
                 ELSE IF arg = Num(1) THEN Zero
                 ELSE IF CmpOne(arg) = 1 THEN NaN ELSE Unk)
         [] name = "sqrt" ->
              ok(IF special THEN arg
                 ELSE IF IsZero(arg) THEN arg
                 ELSE IF arg.s = -1 THEN NaN
                 ELSE IF arg.k = "inf" THEN arg
                 ELSE IF ExactSqrt(arg.n) >= 0 /\ ExactSqrt(arg.d) >= 0
                 THEN Fin(1, ExactSqrt(arg.n), ExactSqrt(arg.d))
                 ELSE Unk)
         [] name = "abs" -> ok(IF special THEN arg ELSE [arg EXCEPT !.s = 1])
         [] name = "floor" ->
              ok(IF arg.k # "fin" THEN arg
                 ELSE Fin(arg.s, IF arg.s = 1 THEN down ELSE up, 1))
         [] name = "ceil" ->
              ok(IF arg.k # "fin" THEN arg
                 ELSE Fin(arg.s, IF arg.s = 1 THEN up ELSE down, 1))
         [] name = "round" ->
              ok(IF arg.k # "fin" THEN arg ELSE Fin(arg.s, near, 1))
         [] OTHER -> [value |-> Zero, panic |-> Panic("UnknownFunction", name, "")]

\* pi and e are irrational: their f64 values are untracked.
call_constant(name) ==
    CASE name = "pi" -> [value |-> Unk, panic |-> NoPanic]
      [] name = "e" -> [value |-> Unk, panic |-> NoPanic]
      [] OTHER -> [value |-> Zero, panic |-> Panic("UnknownConstant", name, "")]

RECURSIVE factor(_), power(_), power_rest(_)
RECURSIVE term(_), term_loop(_), expr(_), expr_loop(_)

\* A faulty variant of factor_identifier: a missing name reads as zero.
factor_identifier_default(p1, name) ==
    IF Panicked(p1) THEN Ret(p1, Zero)
    ELSE IF name \in DOMAIN p1.variables THEN Ret(p1, p1.variables[name])
    ELSE Ret(p1, Zero)

\* The Identifier arm of factor once the identifier is eaten: the lookup.
factor_identifier(p1, name) ==
    IF Panicked(p1) THEN Ret(p1, Zero)
    ELSE IF name \in DOMAIN p1.variables THEN Ret(p1, p1.variables[name])
    ELSE Ret([p1 EXCEPT !.panic = Panic("UndefinedVariable", name, "")], Zero)

\* The end of the Function arm: the call made (c is its value and panic),
\* the closing parenthesis is eaten and the value returned.
factor_result(p, c) ==
    Ret(eat([p EXCEPT !.panic = c.panic], "RightParen"), c.value)

\* The Function arm of factor for a function of one argument, a being the
\* argument parsed.
factor_call(a, name) ==
    IF Panicked(a.p) THEN a
    ELSE factor_result(a.p, call_function(name, a.v))

\* A faulty variant of factor_function: the argument is optional, a ')'
\* right after the '(' calling the function on zero.
factor_function_optional(p2, name) ==
    IF Panicked(p2) THEN Ret(p2, Zero)
    ELSE IF name \in {"pi", "e"} THEN factor_result(p2, call_constant(name))
    ELSE IF p2.current_token.kind = "RightParen"
    THEN factor_result(p2, call_function(name, Zero))
    ELSE factor_call(expr(p2), name)

\* The Function arm of factor once the name and '(' are eaten.
factor_function(p2, name) ==
    IF Panicked(p2) THEN Ret(p2, Zero)
    ELSE IF name \in {"pi", "e"} THEN factor_result(p2, call_constant(name))
    ELSE factor_call(expr(p2), name)

\* A faulty variant of factor_negate: the minus applies to the power that
\* starts with the operand, so that '-' binds looser than '^'.
factor_negate_power(r) == Ret(power_rest(r).p, FNeg(power_rest(r).v))

\* The Minus arm of factor, r being the operand parsed.
factor_negate(r) == Ret(r.p, FNeg(r.v))

\* The LeftParen arm of factor, r being the expression parsed.
factor_paren(r) == Ret(eat(r.p, "RightParen"), r.v)

\* A faulty variant of factor: at the end of the input the operand missing
\* reads as zero.
factor_eof_zero(p) ==
    IF Panicked(p) \/ p.current_token.kind = "EOF" THEN Ret(p, Zero)
    ELSE CASE p.current_token.kind = "Number" ->
                Ret(eat(p, "Number"), p.current_token.value)
           [] p.current_token.kind = "Identifier" ->
                factor_identifier(eat(p, "Identifier"), p.current_token.name)
           [] p.current_token.kind = "Function" ->
                factor_function(eat(eat(p, "Function"), "LeftParen"),
                                p.current_token.name)
           [] p.current_token.kind = "Minus" ->
                factor_negate(factor(eat(p, "Minus")))
           [] p.current_token.kind = "LeftParen" ->
                factor_paren(expr(eat(p, "LeftParen")))
           [] OTHER ->
                Ret([p EXCEPT !.panic = Panic("UnexpectedTokenInFactor", "",
                                              p.current_token.kind)], Zero)

factor(p) ==
    IF Panicked(p) THEN Ret(p, Zero)
    ELSE CASE p.current_token.kind = "Number" ->
                Ret(eat(p, "Number"), p.current_token.value)
           [] p.current_token.kind = "Identifier" ->
                factor_identifier(eat(p, "Identifier"), p.current_token.name)
           [] p.current_token.kind = "Function" ->
                factor_function(eat(eat(p, "Function"), "LeftParen"),
                                p.current_token.name)
           [] p.current_token.kind = "Minus" ->
                factor_negate(factor(eat(p, "Minus")))
           [] p.current_token.kind = "LeftParen" ->
                factor_paren(expr(eat(p, "LeftParen")))
           [] OTHER ->
                Ret([p EXCEPT !.panic = Panic("UnexpectedTokenInFactor", "",
                                              p.current_token.kind)], Zero)

\* base ^ exponent, both parsed.
power_apply(base, exponent) == Ret(exponent.p, FPow(base.v, exponent.v))

\* A faulty variant of power_rest: the right operand is a factor and the
\* chain is folded from the left.
power_rest_left(r) ==
    IF ~Panicked(r.p) /\ r.p.current_token.kind = "Power"
    THEN power_rest(power_apply(r, factor(eat(r.p, "Power"))))
    ELSE r

\* power after its base, r, is parsed.
power_rest(r) ==
    IF ~Panicked(r.p) /\ r.p.current_token.kind = "Power"
    THEN power_apply(r, power(eat(r.p, "Power")))
    ELSE r

power(p) == power_rest(factor(p))

\* A faulty variant of term_apply: a zero divisor is refused.
term_apply_checked(kind, r, o) ==
    IF kind \in {"Divide", "Modulo"} /\ IsZero(o.v)
    THEN Ret([o.p EXCEPT !.panic = Panic("DivisionByZero", "", "")], Zero)
    ELSE Ret(o.p, CASE kind = "Multiply" -> FMul(r.v, o.v)
                    [] kind = "Divide" -> FDiv(r.v, o.v)
                    [] kind = "Modulo" -> FRem(r.v, o.v))

\* One round of the loop of term: r the result so far, o the operand parsed.
term_apply(kind, r, o) ==
    Ret(o.p, CASE kind = "Multiply" -> FMul(r.v, o.v)
               [] kind = "Divide" -> FDiv(r.v, o.v)
               [] kind = "Modulo" -> FRem(r.v, o.v))

\* A faulty variant of term_loop: the right operand is a whole term, so
\* the chain is folded from the right.
term_loop_right(r) ==
    IF Panicked(r.p) THEN r
    ELSE IF r.p.current_token.kind \in {"Multiply", "Divide", "Modulo"}
    THEN term_apply(r.p.current_token.kind, r,
                    term(eat(r.p, r.p.current_token.kind)))
    ELSE r

\* The while loop of term, entered with the result so far.
term_loop(r) ==
    IF Panicked(r.p) THEN r
    ELSE IF r.p.current_token.kind \in {"Multiply", "Divide", "Modulo"}
    THEN term_loop(term_apply(r.p.current_token.kind, r,
                              power(eat(r.p, r.p.current_token.kind))))
    ELSE r

\* A faulty variant of term: it stops after its first operand, so that
\* '*', '/' and '%' bind no tighter than '+' and '-'.
term_single(p) == power(p)

term(p) == term_loop(power(p))

\* One round of the loop of expr: r the result so far, o the operand parsed.
expr_apply(kind, r, o) ==
    Ret(o.p, CASE kind = "Plus" -> FAdd(r.v, o.v)
               [] kind = "Minus" -> FSub(r.v, o.v))

\* The while loop of expr, entered with the result so far.
expr_loop(r) ==
    IF Panicked(r.p) THEN r
    ELSE IF r.p.current_token.kind \in {"Plus", "Minus"}
    THEN expr_loop(expr_apply(r.p.current_token.kind, r,
                              term(eat(r.p, r.p.current_token.kind))))
    ELSE r

expr(p) == expr_loop(term(p))

\* A faulty variant of assignment_insert: a name already bound keeps its
\* value.
assignment_insert_absent(var_name, r) ==
    IF Panicked(r.p) THEN r
    ELSE IF var_name \in DOMAIN r.p.variables THEN r
    ELSE Ret([r.p EXCEPT !.variables = Insert(@, var_name, r.v)], r.v)

\* The assignment made: the name bound to the value of r.
assignment_insert(var_name, r) ==
    IF Panicked(r.p) THEN r
    ELSE Ret([r.p EXCEPT !.variables = Insert(@, var_name, r.v)], r.v)

\* A faulty variant of assignment: the name is bound, to zero, before the
\* right-hand side is evaluated.
assignment_bind_first(p) ==
    IF Panicked(p) THEN Ret(p, Zero)
    ELSE IF p.current_token.kind = "Identifier"
    THEN assignment_insert(
             p.current_token.name,
             expr(eat(eat([p EXCEPT !.variables =
                              Insert(@, p.current_token.name, Zero)],
                          "Identifier"), "Assign")))
    ELSE expr(p)

assignment(p) ==
    IF Panicked(p) THEN Ret(p, Zero)
    ELSE IF p.current_token.kind = "Identifier"
    THEN assignment_insert(p.current_token.name,
                           expr(eat(eat(p, "Identifier"), "Assign")))
    ELSE expr(p)

\* A faulty variant of statement_decide: a statement that starts with a name
\* and is no assignment stores its value under that name.
statement_decide_store(p, ahead) ==
    IF Panicked(ahead)
    THEN Ret([p EXCEPT !.lexer = ahead.lexer, !.panic = ahead.panic], Zero)
    ELSE IF ahead.token.kind = "Assign" THEN assignment(p)
    ELSE assignment_insert(p.current_token.name, expr(p))

\* statement after its lookahead: ahead is what next_token returned, p the
\* parser as it was (the lexer and token saved, restored after the look).
statement_decide(p, ahead) ==
    IF Panicked(ahead)
    THEN Ret([p EXCEPT !.lexer = ahead.lexer, !.panic = ahead.panic], Zero)
    ELSE IF ahead.token.kind = "Assign" THEN assignment(p)
    ELSE expr(p)

statement(p) ==
    IF Panicked(p) THEN Ret(p, Zero)
    ELSE IF p.current_token.kind = "Identifier"
    THEN statement_decide(p, next_token(p.lexer))
    ELSE expr(p)

RECURSIVE parse(_)

\* A faulty variant of parse_next: the statements that follow are run but
\* the value returned is that of the statement before them.
parse_next_first(p1, r) ==
    IF Panicked(p1) THEN Ret(p1, Zero)
    ELSE IF p1.current_token.kind # "EOF" THEN Ret(parse(p1).p, r.v)
    ELSE Ret(p1, r.v)

\* parse after the ';' that follows a statement of value r is eaten.
parse_next(p1, r) ==
    IF Panicked(p1) THEN Ret(p1, Zero)
    ELSE IF p1.current_token.kind # "EOF" THEN parse(p1)
    ELSE Ret(p1, r.v)

\* parse after a statement of result r.
parse_rest(r) ==
    IF Panicked(r.p) THEN r
    ELSE IF r.p.current_token.kind = "Semicolon"
    THEN parse_next(eat(r.p, "Semicolon"), r)
    ELSE r

parse(p) == parse_rest(statement(p))

(***************************************************************************)
(* The interactive session (cli.rs).                                       *)
(***************************************************************************)
\* Parser::set_variables and Parser::get_variables are called by cli.rs and
\* defined outside the sources at hand: the first seeds the parser's symbol
\* table with the map given, the second returns the parser's symbol table.
set_variables(p, map) == [p EXCEPT !.variables = map]
get_variables(p) == p.variables

OkResult(v) == [kind |-> "Ok", value |-> v]
ErrResult == [kind |-> "Err", value |-> Zero]
NoResult == [kind |-> "none", value |-> Zero]

\* CalculatorCLI::evaluate_expression on a session whose snapshot is
\* self_variables: the snapshot after the call, the Result returned, the
\* panic raised if any, and whether that panic left the function uncaught.
\* A faulty variant of evaluate_match: the parser's table is committed
\* whether or not the parse panicked.
evaluate_match_commit(self_variables, caught) ==
    IF Panicked(caught.p)
    THEN [variables |-> get_variables(caught.p), result |-> ErrResult,
          panic |-> caught.p.panic, uncaught |-> FALSE]
    ELSE [variables |-> get_variables(caught.p), result |-> OkResult(caught.v),
          panic |-> NoPanic, uncaught |-> FALSE]

\* lines 106-117: what catch_unwind returned is matched.
evaluate_match(self_variables, caught) ==
    IF Panicked(caught.p)
    THEN [variables |-> self_variables, result |-> ErrResult,
          panic |-> caught.p.panic, uncaught |-> FALSE]
    ELSE [variables |-> get_variables(caught.p), result |-> OkResult(caught.v),
          panic |-> NoPanic, uncaught |-> FALSE]

\* A faulty variant of evaluate_parser: the parser is not seeded with the
\* session's snapshot.
evaluate_parser_unseeded(self_variables, parser) ==
    IF Panicked(parser)
    THEN [variables |-> self_variables, result |-> NoResult,
          panic |-> parser.panic, uncaught |-> TRUE]
    ELSE evaluate_match(self_variables, parse(parser))

\* lines 100-117: the parser is built outside catch_unwind, seeded and run.
evaluate_parser(self_variables, parser) ==
    IF Panicked(parser)
    THEN [variables |-> self_variables, result |-> NoResult,
          panic |-> parser.panic, uncaught |-> TRUE]
    ELSE evaluate_match(self_variables,
                        parse(set_variables(parser, self_variables)))

evaluate_expression(self_variables, input) ==
    evaluate_parser(self_variables, Parser_new(Lexer_new(input)))

\* str::trim
RECURSIVE TrimStart(_)
TrimStart(text) ==
    IF text # <<>> /\ is_whitespace(Head(text)) THEN TrimStart(Tail(text)) ELSE text

RECURSIVE TrimEnd(_)
TrimEnd(text) ==
    IF text # <<>> /\ is_whitespace(text[Len(text)])
    THEN TrimEnd(SubSeq(text, 1, Len(text) - 1)) ELSE text

Trim(text) == TrimEnd(TrimStart(text))

(***************************************************************************)
(* Inputs.  A line is typed as a sequence of statements.  A statement is   *)
(* an optional target name and an expression tree in prefix form, e.g.     *)
(* <<"+", "2", "*", "3", "4">>, or a raw fragment of text.  The text of a  *)
(* tree carries exactly the parentheses the grammar of the specification   *)
(* requires, and the reference semantics below evaluates the tree itself.  *)
(***************************************************************************)
BinOps == {"+", "-", "*", "/", "%", "^"}

Prec(op) ==
    CASE op \in {"+", "-"} -> 1
      [] op \in {"*", "/", "%"} -> 2
      [] op = "^" -> 3

\* A leaf is a number literal or a name; all but these are one character.
LeafChars(leaf) ==
    CASE leaf = "10" -> <<"1", "0">>
      [] leaf = "100" -> <<"1", "0", "0">>
      [] OTHER -> <<leaf>>

IsNumberLeaf(leaf) == Head(LeafChars(leaf)) \in AsciiDigits

RECURSIVE DigitsValue(_, _)
DigitsValue(chars, acc) ==
    IF chars = <<>> THEN acc
    ELSE DigitsValue(Tail(chars), acc * 10 + DigitVal(Head(chars)))

LeafValue(leaf) == Num(DigitsValue(LeafChars(leaf), 0))

\* The statement "lhs = rhs" ("rhs" when lhs is ""), followed by the text tail.
Stmt(lhs, rhs, tail) == [lhs |-> lhs, rhs |-> rhs, raw |-> tail]
RawStmt(raw) == [lhs |-> "", rhs |-> <<>>, raw |-> raw]

Paren(text, needed) == IF needed THEN <<"(">> \o text \o <<")">> ELSE text

\* The text of the tree at the head of pre, what follows the tree in pre,
\* and the precedence level of the tree's root (4 for a leaf).
RECURSIVE RenderTree(_)
RenderTree(pre) ==
    LET h == Head(pre)
    IN IF h \in BinOps
       THEN LET a == RenderTree(Tail(pre))
                b == RenderTree(a.rest)
                lp == IF h = "^" THEN a.prec <= Prec(h) ELSE a.prec < Prec(h)
                rp == IF h = "^" THEN b.prec < Prec(h) ELSE b.prec <= Prec(h)
            IN [text |-> Paren(a.text, lp) \o <<" ", h, " ">> \o Paren(b.text, rp),
                rest |-> b.rest, prec |-> Prec(h)]
       ELSE [text |-> LeafChars(h), rest |-> Tail(pre), prec |-> 4]

RenderStmt(st) ==
    IF st.rhs = <<>> THEN st.raw
    ELSE (IF st.lhs = "" THEN <<>> ELSE LeafChars(st.lhs) \o <<" ", "=", " ">>)
         \o RenderTree(st.rhs).text \o st.raw

RECURSIVE RenderLine(_)
RenderLine(stmts) ==
    IF stmts = <<>> THEN <<>>
    ELSE IF Len(stmts) = 1 THEN RenderStmt(stmts[1])
    ELSE RenderStmt(stmts[1]) \o <<";", " ">> \o RenderLine(Tail(stmts))

WellFormed(stmts) == stmts # <<>> /\ \A i \in 1..Len(stmts) : stmts[i].raw = <<>>

ApplyOp(op, a, b) ==
    CASE op = "+" -> FAdd(a, b) [] op = "-" -> FSub(a, b)
      [] op = "*" -> FMul(a, b) [] op = "/" -> FDiv(a, b)
      [] op = "%" -> FRem(a, b) [] op = "^" -> FPow(a, b)

\* Reference value of the tree at the head of pre in env: the value, the
\* first name read that env does not bind ("" if none), and the rest of pre.
RECURSIVE RefTree(_, _)
RefTree(pre, env) ==
    LET h == Head(pre)
    IN IF h \in BinOps
       THEN LET a == RefTree(Tail(pre), env)
                b == RefTree(a.rest, env)
                undef == IF a.undef # "" THEN a.undef ELSE b.undef
            IN [v |-> IF undef # "" THEN Zero ELSE ApplyOp(h, a.v, b.v),
                undef |-> undef, rest |-> b.rest]
       ELSE IF IsNumberLeaf(h)
       THEN [v |-> LeafValue(h), undef |-> "", rest |-> Tail(pre)]
       ELSE IF h \in DOMAIN env
       THEN [v |-> env[h], undef |-> "", rest |-> Tail(pre)]
       ELSE [v |-> Zero, undef |-> h, rest |-> Tail(pre)]

\* Reference run of well-formed statements from env, in order: the final
\* environment, the value of the last statement, and the first undefined
\* name read ("" if none; the run stops there).
RECURSIVE RefRun(_, _, _)
RefRun(stmts, env, last) ==
    IF stmts = <<>> THEN [env |-> env, v |-> last, undef |-> ""]
    ELSE LET st == Head(stmts)
             r == RefTree(st.rhs, env)
         IN IF r.undef # "" THEN [env |-> env, v |-> Zero, undef |-> r.undef]
            ELSE RefRun(Tail(stmts),
                        IF st.lhs = "" THEN env ELSE Insert(env, st.lhs, r.v), r.v)

(***************************************************************************)
(* Bounded input sets.                                                     *)
(***************************************************************************)
MaxOps == 2

ExprLeaves == {"2", "3"}

\* The trees with exactly n operators over ExprLeaves.
RECURSIVE TreesWith(_)
TreesWith(n) ==
    IF n = 0 THEN {<<leaf>> : leaf \in ExprLeaves}
    ELSE UNION {{<<op>> \o a \o b : op \in BinOps, a \in TreesWith(i),
                                    b \in TreesWith(n - 1 - i)} : i \in 0..(n - 1)}

ExprTrees == UNION {TreesWith(n) : n \in 0..MaxOps}

\* The arithmetic test cases of main, and the cases its comments work out.
TestCaseTrees ==
    {<<"+", "2", "3">>, <<"+", "*", "2", "3", "4">>, <<"^", "2", "3">>,
     <<"%", "10", "3">>, <<"^", "2", "^", "3", "2">>, <<"+", "2", "^", "3", "2">>,
     <<"*", "2", "^", "3", "2">>, <<"^", "+", "2", "3", "2">>,
     <<"+", "%", "10", "3", "2">>, <<"*", "^", "2", "3", "4">>,
     <<"/", "100", "^", "2", "3">>,
     <<"+", "2", "*", "3", "4">>, <<"*", "+", "2", "3", "4">>,
     <<"/", "/", "10", "2", "5">>, <<"-", "-", "10", "3", "2">>}

ExprEntries == {<<Stmt("", t, <<>>)>> : t \in ExprTrees \cup TestCaseTrees}

\* No service of the backend is running and its tables are empty.
BackendAbsent ==
    /\ users = <<>>
    /\ observations = <<>>
    /\ trips = <<>>
    /\ uploads = {}
    /\ calls = <<>>
    /\ response = <<>>

NoLex == [lexer |-> Lexer_new(<<>>), token |-> Tok("none"), panic |-> NoPanic]

\* No Parser is run step by step.
NoParser ==
    [lexer |-> Lexer_new(<<>>), current_token |-> Tok("none"),
     variables |-> EmptyMap, panic |-> NoPanic]

\* The locals of parse and statement: where the run is, the lexer and the
\* token statement saved, what its lookahead found, and the value of the
\* last statement.
Frame(at, saved_lexer, saved_token, is_assignment, res) ==
    [at |-> at, saved_lexer |-> saved_lexer, saved_token |-> saved_token,
     is_assignment |-> is_assignment, result |-> res]

NoStmt == Frame("none", Lexer_new(<<>>), Tok("none"), FALSE, Zero)

(***************************************************************************)
(* Steps of the read-eval-print loop of CalculatorCLI::run.                *)
(***************************************************************************)
\* line 69: the line matched no command and is evaluated.
EvaluateLine ==
    /\ pc = "read"
    /\ \E r \in {evaluate_expression(variables, line)} :
          /\ variables' = r.variables
          /\ result' = r.result
          /\ stderr' = r.panic
          /\ pc' = IF r.uncaught THEN "aborted" ELSE "evaluated"
    /\ UNCHANGED <<line, entry, nlines, lex, self, stmt, sessions, backend>>

\* lines 70-76: the result is printed and the loop returns to the prompt.
PrintResult ==
    /\ pc = "evaluated"
    /\ pc' = "readline"
    /\ line' = <<>>
    /\ entry' = <<>>
    /\ result' = NoResult
    /\ stderr' = NoPanic
    /\ UNCHANGED <<variables, nlines, lex, self, stmt, sessions, backend>>

(***************************************************************************)
(* ExprSpec: one expression, typed into a fresh session, is evaluated.     *)
(***************************************************************************)
ExprInit ==
    /\ variables = EmptyMap
    /\ entry \in ExprEntries
    /\ line = Trim(RenderLine(entry))
    /\ result = NoResult
    /\ stderr = NoPanic
    /\ pc = "read"
    /\ nlines = 1
    /\ lex = NoLex
    /\ self = NoParser
    /\ stmt = NoStmt
    /\ sessions = <<>>
    /\ BackendAbsent

ExprNext == EvaluateLine \/ PrintResult

ExprSpec == ExprInit /\ [][ExprNext]_vars

(***************************************************************************)
(* EvalSpec: one line of statements is evaluated against a snapshot.       *)
(***************************************************************************)
MaxStmts == 2

StmtTrees == {<<"1">>, <<"x">>, <<"y">>, <<"z">>, <<"+", "x", "1">>}

\* Fragments that are no statement: a character outside the alphabet, end
\* of input after an operator, tokens left over after a statement.
Fragments ==
    {RawStmt(<<"2", " ", "$", " ", "3">>), RawStmt(<<"2", " ", "+">>),
     RawStmt(<<"2", " ", "3">>), RawStmt(<<"2", " ", ")">>),
     RawStmt(<<"$", " ", "2">>),
     Stmt("y", <<"x">>, <<" ", "=", " ", "5">>),
     Stmt("", <<"+", "1", "y">>, <<" ", "$">>)}

Statements ==
    {Stmt(lhs, t, <<>>) : lhs \in {"", "x", "y"}, t \in StmtTrees} \cup Fragments

\* The sequences of 1..n statements.
RECURSIVE LinesOf(_)
LinesOf(n) ==
    IF n = 0 THEN {}
    ELSE {<<st>> : st \in Statements}
         \cup {<<st>> \o rest : st \in Statements, rest \in LinesOf(n - 1)}

\* The multi-statement examples main prints and runs.
ExamplePrograms ==
    {<<Stmt("x", <<"5">>, <<>>), Stmt("y", <<"+", "x", "2">>, <<>>),
       Stmt("", <<"*", "x", "y">>, <<>>)>>,
     <<Stmt("x", <<"2">>, <<>>), Stmt("y", <<"3">>, <<>>),
       Stmt("", <<"^", "x", "y">>, <<>>)>>,
     <<Stmt("a", <<"10">>, <<>>), Stmt("b", <<"3">>, <<>>),
       Stmt("", <<"%", "a", "b">>, <<>>)>>}

EvalEntries == LinesOf(MaxStmts) \cup ExamplePrograms

Restrict(map, names) == [name \in names |-> map[name]]

Snapshots ==
    LET full == [name \in {"x", "y"} |-> IF name = "x" THEN Num(1) ELSE Num(2)]
    IN {Restrict(full, names) : names \in SUBSET {"x", "y"}}

EvalInit ==
    /\ variables \in Snapshots
    /\ entry \in EvalEntries
    /\ line = Trim(RenderLine(entry))
    /\ result = NoResult
    /\ stderr = NoPanic
    /\ pc = "read"
    /\ nlines = 1
    /\ lex = NoLex
    /\ self = NoParser
    /\ stmt = NoStmt
    /\ sessions = <<>>
    /\ BackendAbsent

EvalNext == EvaluateLine \/ PrintResult

EvalSpec == EvalInit /\ [][EvalNext]_vars

(***************************************************************************)
(* Spec: the interactive session, CalculatorCLI::new followed by run.      *)
(***************************************************************************)
MaxLines == 3

\* The lines the match of run treats as commands (lines 43-61).
Commands ==
    {<<>>, <<"q", "u", "i", "t">>, <<"e", "x", "i", "t">>, <<"q">>,
     <<"h", "e", "l", "p">>, <<"h">>, <<"v", "a", "r", "s">>,
     <<"v", "a", "r", "i", "a", "b", "l", "e", "s">>,
     <<"c", "l", "e", "a", "r">>}

\* The command lines typed: the commands, two of them within whitespace.
CommandLines ==
    (Commands \ {<<>>})
    \cup {<<" ", "c", "l", "e", "a", "r", "\t">>, <<" ", " ">>}

SessionEntries ==
    {<<st>> : st \in Statements} \cup {<<RawStmt(c)>> : c \in CommandLines}

Init ==
    /\ variables = EmptyMap
    /\ line = <<>>
    /\ entry = <<>>
    /\ result = NoResult
    /\ stderr = NoPanic
    /\ pc = "readline"
    /\ nlines = 0
    /\ lex = NoLex
    /\ self = NoParser
    /\ stmt = NoStmt
    /\ sessions = <<>>
    /\ BackendAbsent

\* lines 37-40: readline returns Ok(line), and the line is trimmed.
ReadLine ==
    /\ pc = "readline"
    /\ nlines < MaxLines
    /\ \E e \in SessionEntries :
          /\ entry' = e
          /\ line' = Trim(RenderLine(e))
    /\ pc' = "read"
    /\ nlines' = nlines + 1
    /\ UNCHANGED <<variables, result, stderr, lex, self, stmt, sessions, backend>>

\* lines 78-89: readline returns an error (CTRL-C, CTRL-D, other).
ReadlineError ==
    /\ pc = "readline"
    /\ pc' = "exited"
    /\ UNCHANGED <<variables, line, entry, result, stderr, nlines, lex, self, stmt, sessions, backend>>

\* `continue`: back to the prompt; the line just handled stays what it was
\* until the next readline replaces it.
Continue ==
    /\ pc' = "readline"
    /\ UNCHANGED <<line, entry, result, stderr, nlines, lex, self, stmt, sessions, backend>>

\* line 44
EmptyLine ==
    /\ pc = "read"
    /\ line = <<>>
    /\ Continue
    /\ UNCHANGED variables

\* lines 45-48
Quit ==
    /\ pc = "read"
    /\ line \in {<<"q", "u", "i", "t">>, <<"e", "x", "i", "t">>, <<"q">>}
    /\ pc' = "exited"
    /\ UNCHANGED <<variables, line, entry, result, stderr, nlines, lex, self, stmt, sessions, backend>>

\* lines 49-52
Help ==
    /\ pc = "read"
    /\ line \in {<<"h", "e", "l", "p">>, <<"h">>}
    /\ Continue
    /\ UNCHANGED variables

\* lines 53-56
ShowVariables ==
    /\ pc = "read"
    /\ line \in {<<"v", "a", "r", "s">>,
                 <<"v", "a", "r", "i", "a", "b", "l", "e", "s">>}
    /\ Continue
    /\ UNCHANGED variables

\* lines 57-61
Clear_keeps_variables ==
    /\ pc = "read"
    /\ line = <<"c", "l", "e", "a", "r">>
    /\ Continue
    /\ UNCHANGED variables

Clear ==
    /\ pc = "read"
    /\ line = <<"c", "l", "e", "a", "r">>
    /\ variables' = EmptyMap
    /\ Continue

IsCommand(text) == text \in Commands

\* lines 62-69: no command matched; add_history_entry, on the history kept
\* in memory, returns Ok, and the line is evaluated.
Evaluate ==
    /\ ~IsCommand(line)
    /\ EvaluateLine

Next ==
    \/ ReadLine
    \/ ReadlineError
    \/ EmptyLine
    \/ Quit
    \/ Help
    \/ ShowVariables
    \/ Clear
    \/ Evaluate
    \/ PrintResult

Spec == Init /\ [][Next]_vars

(***************************************************************************)
(* LexSpec: Lexer::new on a bounded text, then next_token again and again  *)
(* until it returns EOF or panics.  lex holds what the last call returned. *)
(***************************************************************************)
MaxLen == 3

LexAlphabet == {"2", "x", "+", " ", "\r", "$", "."}

\* The texts of at most n characters.
RECURSIVE TextsUpTo(_)
TextsUpTo(n) ==
    IF n = 0 THEN {<<>>}
    ELSE TextsUpTo(n - 1)
         \cup {Append(t, ch) : t \in TextsUpTo(n - 1), ch \in LexAlphabet}

LexInit ==
    /\ variables = EmptyMap
    /\ line \in TextsUpTo(MaxLen)
    /\ entry = <<>>
    /\ result = NoResult
    /\ stderr = NoPanic
    /\ pc = "lexing"
    /\ nlines = 0
    /\ lex = [lexer |-> Lexer_new(line), token |-> Tok("none"), panic |-> NoPanic]
    /\ self = NoParser
    /\ stmt = NoStmt
    /\ sessions = <<>>
    /\ BackendAbsent

\* A faulty variant of NextToken: the token is returned and the cursor
\* stays where it was.
NextToken_stuck ==
    /\ pc \in {"lexing", "at_eof", "past_eof"}
    /\ ~Panicked(lex)
    /\ lex' = [next_token(lex.lexer) EXCEPT !.lexer = lex.lexer]
    /\ pc' = IF pc # "lexing" THEN "past_eof"
             ELSE IF lex'.token = EOF /\ ~Panicked(lex') THEN "at_eof"
             ELSE "lexing"
    /\ UNCHANGED <<variables, line, entry, result, stderr, nlines,
                   self, stmt, sessions, backend>>

\* One more call of next_token on the lexer, which is called again after
\* it has returned EOF.
NextToken ==
    /\ pc \in {"lexing", "at_eof", "past_eof"}
    /\ ~Panicked(lex)
    /\ lex' = next_token(lex.lexer)
    /\ pc' = IF pc # "lexing" THEN "past_eof"
             ELSE IF lex'.token = EOF /\ ~Panicked(lex') THEN "at_eof"
             ELSE "lexing"
    /\ UNCHANGED <<variables, line, entry, result, stderr, nlines,
                   self, stmt, sessions, backend>>

LexNext == NextToken

LexSpec == LexInit /\ [][LexNext]_vars

(***************************************************************************)
(* CallSpec: one call of a builtin, typed into a fresh session, is         *)
(* evaluated.  A call is the name, then nothing, or a space and a literal, *)
(* or '(' and up to MaxArgs literals separated by ', ' or ' ' and ')'.     *)
(***************************************************************************)
MaxArgs == 2

\* The names next_token makes Function tokens of, spelled out.
FunctionSpellings ==
    {<<"s", "i", "n">>, <<"c", "o", "s">>, <<"t", "a", "n">>,
     <<"a", "s", "i", "n">>, <<"a", "c", "o", "s">>, <<"a", "t", "a", "n">>,
     <<"s", "q", "r", "t">>, <<"a", "b", "s">>, <<"f", "l", "o", "o", "r">>,
     <<"c", "e", "i", "l">>, <<"r", "o", "u", "n", "d">>, <<"p", "i">>, <<"e">>}

RECURSIVE Spell(_)
Spell(chars) == IF chars = <<>> THEN "" ELSE Head(chars) \o Spell(Tail(chars))

CallArgs == {"0", "1", "4"}

\* The sequences of exactly n literals.
RECURSIVE ArgLists(_)
ArgLists(n) ==
    IF n = 0 THEN {<<>>}
    ELSE {<<a>> \o rest : a \in CallArgs, rest \in ArgLists(n - 1)}

RECURSIVE JoinArgs(_, _)
JoinArgs(args, sep) ==
    IF args = <<>> THEN <<>>
    ELSE IF Len(args) = 1 THEN LeafChars(args[1])
    ELSE LeafChars(args[1]) \o sep \o JoinArgs(Tail(args), sep)

Call(chars, open, args, sep) ==
    [chars |-> chars, open |-> open, args |-> args, sep |-> sep]

Calls ==
    {Call(f, FALSE, <<>>, <<" ">>) : f \in FunctionSpellings}
    \cup {Call(f, FALSE, a, <<" ">>) : f \in FunctionSpellings, a \in ArgLists(1)}
    \cup {Call(f, TRUE, a, <<" ">>) :
              f \in FunctionSpellings, a \in ArgLists(0) \cup ArgLists(1)}
    \cup UNION {{Call(f, TRUE, a, sep) :
                    f \in FunctionSpellings, a \in ArgLists(n),
                    sep \in {<<",", " ">>, <<" ">>}} : n \in 2..MaxArgs}

CallText(c) ==
    IF c.open THEN c.chars \o <<"(">> \o JoinArgs(c.args, c.sep) \o <<")">>
    ELSE IF c.args = <<>> THEN c.chars
    ELSE c.chars \o <<" ">> \o JoinArgs(c.args, c.sep)

CallInit ==
    /\ variables = EmptyMap
    /\ entry \in {<<RawStmt(CallText(c))>> : c \in Calls}
    /\ line = Trim(RenderLine(entry))
    /\ result = NoResult
    /\ stderr = NoPanic
    /\ pc = "read"
    /\ nlines = 1
    /\ lex = NoLex
    /\ self = NoParser
    /\ stmt = NoStmt
    /\ sessions = <<>>
    /\ BackendAbsent

CallNext == EvaluateLine \/ PrintResult

CallSpec == CallInit /\ [][CallNext]_vars

(***************************************************************************)
(* ZeroSpec: a line whose first statement computes with zero, or calls a   *)
(* builtin outside its domain, is evaluated in a fresh session.  The first *)
(* statement is one operation on 0, 1 and 2, alone or as an operand of a   *)
(* sum or a difference, assigned to x or not; a second statement, 'y = 2'  *)
(* or 'y = x + 1', may follow.                                             *)
(***************************************************************************)
ZeroLeaves == {"0", "1", "2"}

ZeroTrees ==
    LET ops == {<<op, a, b>> : op \in BinOps, a \in ZeroLeaves, b \in ZeroLeaves}
    IN ops \cup {<<"+">> \o t \o <<"1">> : t \in ops}
           \cup {<<"-", "1">> \o t : t \in ops}

\* Calls outside the domain of the function called.
DomainFragments ==
    {<<"s", "q", "r", "t", "(", "0", " ", "-", " ", "1", ")">>,
     <<"a", "c", "o", "s", "(", "2", ")">>,
     <<"a", "s", "i", "n", "(", "0", " ", "-", " ", "2", ")">>}

ZeroEntries ==
    {<<Stmt(lhs, t, <<>>)>> : lhs \in {"", "x"}, t \in ZeroTrees}
    \cup {<<Stmt(lhs, t, <<>>), Stmt("y", <<"2">>, <<>>)>> :
              lhs \in {"", "x"}, t \in ZeroTrees}
    \cup {<<Stmt("x", t, <<>>), Stmt("y", <<"+", "x", "1">>, <<>>)>> : t \in ZeroTrees}
    \cup {<<RawStmt(<<"x", " ", "=", " ">> \o f), Stmt("y", <<"2">>, <<>>)>> :
              f \in DomainFragments}

ZeroInit ==
    /\ variables = EmptyMap
    /\ entry \in ZeroEntries
    /\ line = Trim(RenderLine(entry))
    /\ result = NoResult
    /\ stderr = NoPanic
    /\ pc = "read"
    /\ nlines = 1
    /\ lex = NoLex
    /\ self = NoParser
    /\ stmt = NoStmt
    /\ sessions = <<>>
    /\ BackendAbsent

ZeroNext == EvaluateLine \/ PrintResult

ZeroSpec == ZeroInit /\ [][ZeroNext]_vars

(***************************************************************************)
(* TruncSpec: a line that ends where an operand is due is read by a fresh  *)
(* session.  The line is an optional 'x = ', up to MaxOpeners openers, each*)
(* a number and a binary operator, a unary minus, a '(' or 'sin(', and an  *)
(* optional 'pi('; or it is empty or whitespace, which run skips.          *)
(***************************************************************************)
MaxOpeners == 2

Openers ==
    {<<"2", " ", op, " ">> : op \in BinOps}
    \cup {<<"-">>, <<"(">>, <<"s", "i", "n", "(">>}

\* The texts of exactly n openers.
RECURSIVE OpenerRuns(_)
OpenerRuns(n) ==
    IF n = 0 THEN {<<>>}
    ELSE {o \o rest : o \in Openers, rest \in OpenerRuns(n - 1)}

WhitespaceTexts == {<<>>, <<" ">>, <<" ", "\t", "\n">>}

Truncated ==
    {a \o r \o f : a \in {<<>>, <<"x", " ", "=", " ">>},
                   r \in UNION {OpenerRuns(k) : k \in 0..MaxOpeners},
                   f \in {<<>>, <<"p", "i", "(">>}}
    \cup WhitespaceTexts

TruncInit ==
    /\ variables = EmptyMap
    /\ entry \in {<<RawStmt(text)>> : text \in Truncated}
    /\ line = Trim(RenderLine(entry))
    /\ result = NoResult
    /\ stderr = NoPanic
    /\ pc = "read"
    /\ nlines = 1
    /\ lex = NoLex
    /\ self = NoParser
    /\ stmt = NoStmt
    /\ sessions = <<>>
    /\ BackendAbsent

TruncNext == EmptyLine \/ Evaluate \/ PrintResult

TruncSpec == TruncInit /\ [][TruncNext]_vars

(***************************************************************************)
(* MinusSpec: a chain of one to three operands joined by '^', each with up *)
(* to MaxMinus unary minus signs before it, is evaluated in a fresh        *)
(* session.                                                                *)
(***************************************************************************)
MaxMinus == 2

Signed(minus, leaf) == [minus |-> minus, leaf |-> leaf]

SignedOperands == {Signed(n, leaf) : n \in 0..MaxMinus, leaf \in ExprLeaves}

SignedChains ==
    {<<a>> : a \in SignedOperands}
    \cup {<<a, b>> : a \in SignedOperands, b \in SignedOperands}
    \cup {<<a, b, c>> : a \in SignedOperands, b \in SignedOperands,
                       c \in SignedOperands}

RECURSIVE SignedText(_, _)
SignedText(minus, leaf) ==
    IF minus = 0 THEN LeafChars(leaf) ELSE <<"-">> \o SignedText(minus - 1, leaf)

RECURSIVE ChainText(_)
ChainText(chain) ==
    IF Len(chain) = 1 THEN SignedText(chain[1].minus, chain[1].leaf)
    ELSE SignedText(chain[1].minus, chain[1].leaf) \o <<" ", "^", " ">>
         \o ChainText(Tail(chain))

MinusInit ==
    /\ variables = EmptyMap
    /\ entry \in {<<RawStmt(ChainText(chain))>> : chain \in SignedChains}
    /\ line = Trim(RenderLine(entry))
    /\ result = NoResult
    /\ stderr = NoPanic
    /\ pc = "read"
    /\ nlines = 1
    /\ lex = NoLex
    /\ self = NoParser
    /\ stmt = NoStmt
    /\ sessions = <<>>
    /\ BackendAbsent

MinusNext == EvaluateLine \/ PrintResult

MinusSpec == MinusInit /\ [][MinusNext]_vars

(***************************************************************************)
(* PairSpec: two CalculatorCLI values run side by side.  Each is a loop of *)
(* run of its own; one call of evaluate_expression takes two steps, the    *)
(* first building and seeding the parser (cli.rs 99-103), the second       *)
(* parsing and matching the outcome (cli.rs 106-117), and the steps of the *)
(* two sessions interleave freely.                                         *)
(***************************************************************************)
MaxCalls == 2

SessionIds == {1, 2}

\* CalculatorCLI::new
CalculatorCLI_new ==
    [variables |-> EmptyMap, history |-> <<>>, pc |-> "idle", parser |-> None,
     result |-> NoResult, stderr |-> NoPanic]

\* The lines typed into the sessions: 'x = 1', 'x = x + 1', 'x + 1', '$'.
PairLines ==
    {Trim(RenderLine(<<st>>)) :
        st \in {Stmt("x", <<"1">>, <<>>), Stmt("x", <<"+", "x", "1">>, <<>>),
                Stmt("", <<"+", "x", "1">>, <<>>), RawStmt(<<"$">>)}}

\* lines 99-103 on session s: the parser built from input is seeded with a
\* clone of the session's snapshot; a panic of Parser::new leaves the call.
session_begin(s, input, parser) ==
    IF Panicked(parser)
    THEN [s EXCEPT !.history = Append(@, input), !.pc = "aborted",
                   !.result = NoResult, !.stderr = parser.panic]
    ELSE [s EXCEPT !.history = Append(@, input), !.pc = "parsing",
                   !.parser = Some(set_variables(parser, s.variables)),
                   !.result = NoResult, !.stderr = NoPanic]

\* A faulty variant of session_store: the table is one for all sessions,
\* as a static would be.
session_store_shared(ss, i, r) ==
    [j \in DOMAIN ss |->
        IF j = i
        THEN [ss[j] EXCEPT !.variables = r.variables, !.result = r.result,
                           !.stderr = r.panic, !.pc = "idle", !.parser = None]
        ELSE [ss[j] EXCEPT !.variables = r.variables]]

\* lines 110-117 on session i: self.variables and the Result returned.
session_store(ss, i, r) ==
    [ss EXCEPT ![i] = [@ EXCEPT !.variables = r.variables, !.result = r.result,
                                !.stderr = r.panic, !.pc = "idle",
                                !.parser = None]]

SessionBegin(i) ==
    /\ sessions[i].pc = "idle"
    /\ Len(sessions[i].history) < MaxCalls
    /\ \E input \in PairLines :
          sessions' = [sessions EXCEPT
                          ![i] = session_begin(@, input, Parser_new(Lexer_new(input)))]
    /\ UNCHANGED <<repl, backend>>

SessionFinish(i) ==
    /\ sessions[i].pc = "parsing"
    /\ \E r \in {evaluate_match(sessions[i].variables,
                                 parse(sessions[i].parser[1]))} :
          sessions' = session_store(sessions, i, r)
    /\ UNCHANGED <<repl, backend>>

PairInit ==
    /\ variables = EmptyMap
    /\ line = <<>>
    /\ entry = <<>>
    /\ result = NoResult
    /\ stderr = NoPanic
    /\ pc = "sessions"
    /\ nlines = 0
    /\ lex = NoLex
    /\ self = NoParser
    /\ stmt = NoStmt
    /\ sessions = [i \in SessionIds |-> CalculatorCLI_new]
    /\ BackendAbsent

PairNext == \E i \in SessionIds : SessionBegin(i) \/ SessionFinish(i)

PairSpec == PairInit /\ [][PairNext]_vars

(***************************************************************************)
(* The bird-watching backend (my-birds/bird-watching-backend).  A table is *)
(* the sequence of its rows in the order of their creation, the id of a    *)
(* row being its index; a row deleted leaves None in its place, so that no *)
(* id is given twice.  A service call runs from one await of the database  *)
(* to the next in one step; the database answers every query.              *)
(***************************************************************************)
UserIds == {"u1", "u2"}

\* Result<_, String>: the message of an error is kept as its parts in order.
ServiceOk == [kind |-> "Ok", message |-> <<>>]
ServiceErr(message) == [kind |-> "Err", message |-> message]

\* SELECT ... WHERE id = $1, fetch_optional
find_by_id(table, id) == IF id \in 1..Len(table) THEN table[id] ELSE None

\* sqlx::Error::RowNotFound, as fetch_one returns it and to_string prints it.
RowNotFound ==
    ServiceErr(<<"no rows returned by a query that expected to return at least one row">>)

\* CoordinateValidator::validate_coordinate_pair on a pair given as "none",
\* "valid" (both in range), "invalid" (latitude 91) or "incomplete".
validate_coordinate_pair(coordinates) ==
    CASE coordinates = "invalid" ->
           ServiceErr(<<"Latitude must be between -90 and 90 degrees, got: ", "91">>)
      [] coordinates = "incomplete" ->
           ServiceErr(<<"Both latitude and longitude must be provided together, or neither">>)
      [] OTHER -> ServiceOk

\* A faulty variant of ObservationService_update_check: the request is
\* validated before the owner is checked.
ObservationService_update_check_late(existing, user_id, req) ==
    IF existing = None THEN ServiceErr(<<"Observation not found">>)
    ELSE IF req.observation_date = "future"
    THEN ServiceErr(<<"Observation date cannot be in the future">>)
    ELSE IF validate_coordinate_pair(req.coordinates).kind = "Err"
    THEN validate_coordinate_pair(req.coordinates)
    ELSE IF existing[1].user_id # user_id
    THEN ServiceErr(<<"Unauthorized", ": You can only update your own observations">>)
    ELSE ServiceOk

\* ObservationService::update, lines 89-103, existing being what find_by_id
\* returned: the error returned, or ServiceOk when the update is to be made.
ObservationService_update_check(existing, user_id, req) ==
    IF existing = None THEN ServiceErr(<<"Observation not found">>)
    ELSE IF existing[1].user_id # user_id
    THEN ServiceErr(<<"Unauthorized", ": You can only update your own observations">>)
    ELSE IF req.observation_date = "future"
    THEN ServiceErr(<<"Observation date cannot be in the future">>)
    ELSE validate_coordinate_pair(req.coordinates)

\* ObservationService::delete, lines 128-131.
ObservationService_delete_check(existing, user_id) ==
    IF existing = None THEN ServiceErr(<<"Observation not found">>)
    ELSE IF existing[1].user_id # user_id
    THEN ServiceErr(<<"Unauthorized", ": You can only delete your own observations">>)
    ELSE ServiceOk

\* ObservationService::delete, lines 134-137: the photo of the observation
\* is removed from the upload directory once the owner is checked.
ObservationService_delete_photo(files, existing, checked) ==
    IF checked.kind = "Ok" /\ existing[1].photo_url # None
    THEN files \ {existing[1].photo_url[1]}
    ELSE files

\* TripService::update, lines 87-90.
TripService_update_check(existing, user_id) ==
    IF existing = None THEN ServiceErr(<<"Trip not found">>)
    ELSE IF existing[1].user_id # user_id
    THEN ServiceErr(<<"Unauthorized", ": You can only update your own trips">>)
    ELSE ServiceOk

\* TripService::delete, lines 110-113.
TripService_delete_check(existing, user_id) ==
    IF existing = None THEN ServiceErr(<<"Trip not found">>)
    ELSE IF existing[1].user_id # user_id
    THEN ServiceErr(<<"Unauthorized", ": You can only delete your own trips">>)
    ELSE ServiceOk

\* ObservationRepository::update: UPDATE ... WHERE id = $1 RETURNING ...;
\* the service passes Some(latitude) and Some(longitude) whatever they are.
ObservationRepository_update(table, id, req) ==
    IF find_by_id(table, id) = None THEN [table |-> table, result |-> RowNotFound]
    ELSE [table |-> [table EXCEPT ![id] = Some(
                       [@[1] EXCEPT !.species_name =
                                       IF req.species_name = None THEN @
                                       ELSE req.species_name[1],
                                    !.coordinates = req.coordinates])],
          result |-> ServiceOk]

\* TripRepository::update
TripRepository_update(table, id, req) ==
    IF find_by_id(table, id) = None THEN [table |-> table, result |-> RowNotFound]
    ELSE [table |-> [table EXCEPT ![id] = Some(
                       [@[1] EXCEPT !.name = IF req.name = None THEN @
                                             ELSE req.name[1]])],
          result |-> ServiceOk]

\* DELETE FROM ... WHERE id = $1: Ok(rows_affected > 0), which the services
\* map to Ok(()).
Repository_delete(table, id) ==
    IF id \in 1..Len(table) THEN [table EXCEPT ![id] = None] ELSE table

(***************************************************************************)
(* OwnerSpec: users create an observation and a trip, upload a photo, and  *)
(* MaxCallers callers at a time update and delete them, each call in two   *)
(* steps: the lookup with the checks that follow it, then the write.       *)
(***************************************************************************)
MaxCallers == 2

\* The ids the database gives the rows created.
RowIds == {1}

Request(species_name, observation_date, coordinates, photo_url, name) ==
    [species_name |-> species_name, observation_date |-> observation_date,
     coordinates |-> coordinates, photo_url |-> photo_url, name |-> name]

NoRequest == Request(None, "none", "none", None, None)

CreateObservationRequests ==
    {Request(Some("robin"), "past", "valid", None, None),
     Request(Some("robin"), "past", "valid", Some("a.jpg"), None),
     Request(Some("robin"), "future", "valid", None, None)}

UpdateObservationRequests ==
    {Request(Some("wren"), "none", "valid", None, None),
     Request(Some("wren"), "future", "valid", None, None),
     Request(Some("wren"), "past", "invalid", None, None)}

UpdateTripRequests == {Request(None, "none", "none", None, Some("dawn"))}

ServiceCall(at, service, op, id, user_id, req, res) ==
    [pc |-> at, service |-> service, op |-> op, id |-> id, user_id |-> user_id,
     req |-> req, result |-> res]

NoCall == ServiceCall("idle", "", "", 0, "", NoRequest, ServiceOk)

\* The call of caller c is at its write.
AtWrite(c, service, op) ==
    calls[c].pc = "write" /\ calls[c].service = service /\ calls[c].op = op

\* Caller c made the call: it passed its checks and goes on to its write,
\* or it returns the error of the check that failed.
Checked(c, call) ==
    IF call.result.kind = "Ok"
    THEN /\ calls' = [calls EXCEPT ![c] = [call EXCEPT !.pc = "write"]]
         /\ UNCHANGED response
    ELSE /\ response' = call
         /\ UNCHANGED calls

\* The call of caller c returns res.
Returned(c, res) ==
    /\ response' = [calls[c] EXCEPT !.pc = "returned", !.result = res]
    /\ calls' = [calls EXCEPT ![c] = NoCall]

\* ObservationService::create
CreateObservation ==
    /\ Len(observations) < Cardinality(RowIds)
    /\ \E user_id \in UserIds, req \in CreateObservationRequests :
          observations' =
              IF req.observation_date = "future"
                 \/ validate_coordinate_pair(req.coordinates).kind = "Err"
              THEN observations
              ELSE Append(observations,
                          Some([user_id |-> user_id,
                                species_name |-> req.species_name[1],
                                coordinates |-> req.coordinates,
                                photo_url |-> req.photo_url]))
    /\ UNCHANGED <<repl, sessions, users, trips, uploads, calls, response>>

\* TripService::create
CreateTrip ==
    /\ Len(trips) < Cardinality(RowIds)
    /\ \E user_id \in UserIds :
          trips' = Append(trips, Some([user_id |-> user_id, name |-> "dusk"]))
    /\ UNCHANGED <<repl, sessions, users, observations, uploads, calls, response>>

\* PhotoService::upload_photo: the file is written to the upload directory.
UploadPhoto ==
    /\ uploads' = uploads \cup {"a.jpg"}
    /\ UNCHANGED <<repl, sessions, users, observations, trips, calls, response>>

\* ObservationService::update up to its write (lines 89-103).
UpdateObservationCheck(c) ==
    /\ calls[c].pc = "idle"
    /\ \E id \in RowIds, user_id \in UserIds, req \in UpdateObservationRequests :
          Checked(c, ServiceCall("returned", "observation", "update", id, user_id, req,
                                 ObservationService_update_check(
                                     find_by_id(observations, id), user_id, req)))
    /\ UNCHANGED <<repl, sessions, users, observations, trips, uploads>>

\* ObservationService::update, lines 105-122.
UpdateObservationWrite(c) ==
    /\ AtWrite(c, "observation", "update")
    /\ \E r \in {ObservationRepository_update(observations, calls[c].id, calls[c].req)} :
          /\ observations' = r.table
          /\ Returned(c, r.result)
    /\ UNCHANGED <<repl, sessions, users, trips, uploads>>

\* ObservationService::delete up to its write (lines 128-137).
DeleteObservationCheck(c) ==
    /\ calls[c].pc = "idle"
    /\ \E id \in RowIds, user_id \in UserIds :
          \E checked \in {ObservationService_delete_check(
                              find_by_id(observations, id), user_id)} :
              /\ Checked(c, ServiceCall("returned", "observation", "delete", id,
                                        user_id, NoRequest, checked))
              /\ uploads' = ObservationService_delete_photo(
                                uploads, find_by_id(observations, id), checked)
    /\ UNCHANGED <<repl, sessions, users, observations, trips>>

\* ObservationService::delete, lines 139-144.
DeleteObservationWrite(c) ==
    /\ AtWrite(c, "observation", "delete")
    /\ observations' = Repository_delete(observations, calls[c].id)
    /\ Returned(c, ServiceOk)
    /\ UNCHANGED <<repl, sessions, users, trips, uploads>>

\* TripService::update up to its write (lines 87-90).
UpdateTripCheck(c) ==
    /\ calls[c].pc = "idle"
    /\ \E id \in RowIds, user_id \in UserIds, req \in UpdateTripRequests :
          Checked(c, ServiceCall("returned", "trip", "update", id, user_id, req,
                                 TripService_update_check(find_by_id(trips, id),
                                                          user_id)))
    /\ UNCHANGED <<repl, sessions, users, observations, trips, uploads>>

\* TripService::update, lines 92-104.
UpdateTripWrite(c) ==
    /\ AtWrite(c, "trip", "update")
    /\ \E r \in {TripRepository_update(trips, calls[c].id, calls[c].req)} :
          /\ trips' = r.table
          /\ Returned(c, r.result)
    /\ UNCHANGED <<repl, sessions, users, observations, uploads>>

\* TripService::delete up to its write (lines 110-113).
DeleteTripCheck(c) ==
    /\ calls[c].pc = "idle"
    /\ \E id \in RowIds, user_id \in UserIds :
          Checked(c, ServiceCall("returned", "trip", "delete", id, user_id, NoRequest,
                                 TripService_delete_check(find_by_id(trips, id),
                                                          user_id)))
    /\ UNCHANGED <<repl, sessions, users, observations, trips, uploads>>

\* TripService::delete, lines 115-120.
DeleteTripWrite(c) ==
    /\ AtWrite(c, "trip", "delete")
    /\ trips' = Repository_delete(trips, calls[c].id)
    /\ Returned(c, ServiceOk)
    /\ UNCHANGED <<repl, sessions, users, observations, uploads>>

OwnerInit ==
    /\ variables = EmptyMap
    /\ line = <<>>
    /\ entry = <<>>
    /\ result = NoResult
    /\ stderr = NoPanic
    /\ pc = "backend"
    /\ nlines = 0
    /\ lex = NoLex
    /\ self = NoParser
    /\ stmt = NoStmt
    /\ sessions = <<>>
    /\ users = <<>>
    /\ observations = <<>>
    /\ trips = <<>>
    /\ uploads = {}
    /\ calls = [c \in 1..MaxCallers |-> NoCall]
    /\ response = NoCall

OwnerNext ==
    \/ CreateObservation
    \/ CreateTrip
    \/ UploadPhoto
    \/ \E c \in 1..MaxCallers :
          \/ UpdateObservationCheck(c)
          \/ UpdateObservationWrite(c)
          \/ DeleteObservationCheck(c)
          \/ DeleteObservationWrite(c)
          \/ UpdateTripCheck(c)
          \/ UpdateTripWrite(c)
          \/ DeleteTripCheck(c)
          \/ DeleteTripWrite(c)

OwnerSpec == OwnerInit /\ [][OwnerNext]_vars

(***************************************************************************)
(* AuthSpec: MaxCallers callers at a time register users, each call in the *)
(* three steps its awaits of the database divide it into: username_exists, *)
(* email_exists, and the INSERT of UserRepository::create.                 *)
(***************************************************************************)
Usernames == {"ann", "bob"}
Emails == {"ann@x.org", "bob@x.org"}

RegisterRequest(username, email) == [username |-> username, email |-> email]

RegisterRequests == {RegisterRequest(u, e) : u \in Usernames, e \in Emails}

\* UserRepository::username_exists
username_exists(table, username) ==
    \E i \in 1..Len(table) : table[i].username = username

\* UserRepository::email_exists
email_exists(table, email) ==
    \E i \in 1..Len(table) : table[i].email = email

\* The unique constraints of the users table on username and on email, as
\* the database reports a row that breaks one.
UniqueViolation ==
    ServiceErr(<<"error returned from database: ",
                 "duplicate key value violates unique constraint">>)

\* UserRepository::create: INSERT INTO users ... RETURNING ...
UserRepository_create(table, username, email) ==
    IF username_exists(table, username) \/ email_exists(table, email)
    THEN [table |-> table, result |-> UniqueViolation]
    ELSE [table |-> Append(table, RegisterRequest(username, email)),
          result |-> ServiceOk]

\* The call of caller c is at the await named.
AtRegister(c, at) ==
    calls[c].pc = at /\ calls[c].service = "auth" /\ calls[c].op = "register"

\* AuthService::register, lines 21-23.
RegisterUsernameCheck(c) ==
    /\ calls[c].pc = "idle"
    /\ \E req \in RegisterRequests :
          IF username_exists(users, req.username)
          THEN /\ response' = ServiceCall("returned", "auth", "register", 0, "", req,
                                          ServiceErr(<<"Username already exists">>))
               /\ UNCHANGED calls
          ELSE /\ calls' = [calls EXCEPT ![c] =
                               ServiceCall("email_exists", "auth", "register", 0, "",
                                           req, ServiceOk)]
               /\ UNCHANGED response
    /\ UNCHANGED <<repl, sessions, users, observations, trips, uploads>>

\* AuthService::register, lines 26-28.
RegisterEmailCheck(c) ==
    /\ AtRegister(c, "email_exists")
    /\ IF email_exists(users, calls[c].req.email)
       THEN Returned(c, ServiceErr(<<"Email already exists">>))
       ELSE /\ calls' = [calls EXCEPT ![c].pc = "create"]
            /\ UNCHANGED response
    /\ UNCHANGED <<repl, sessions, users, observations, trips, uploads>>

\* AuthService::register, lines 31-40: the password is hashed and the user
\* inserted.
RegisterCreate(c) ==
    /\ AtRegister(c, "create")
    /\ \E r \in {UserRepository_create(users, calls[c].req.username,
                                       calls[c].req.email)} :
          /\ users' = r.table
          /\ Returned(c, r.result)
    /\ UNCHANGED <<repl, sessions, observations, trips, uploads>>

AuthInit ==
    /\ variables = EmptyMap
    /\ line = <<>>
    /\ entry = <<>>
    /\ result = NoResult
    /\ stderr = NoPanic
    /\ pc = "auth"
    /\ nlines = 0
    /\ lex = NoLex
    /\ self = NoParser
    /\ stmt = NoStmt
    /\ sessions = <<>>
    /\ users = <<>>
    /\ observations = <<>>
    /\ trips = <<>>
    /\ uploads = {}
    /\ calls = [c \in 1..MaxCallers |-> NoCall]
    /\ response = NoCall

AuthNext ==
    \E c \in 1..MaxCallers :
        \/ RegisterUsernameCheck(c)
        \/ RegisterEmailCheck(c)
        \/ RegisterCreate(c)

AuthSpec == AuthInit /\ [][AuthNext]_vars

(***************************************************************************)
(* NameSpec: a name, a builtin's or one close to a builtin's, is read,     *)
(* assigned or added to, against a snapshot that binds the names that are  *)
(* no builtin's, or none.                                                  *)
(***************************************************************************)
\* Runs of letters, digits and underscores that are no builtin name.
NearSpellings ==
    {<<"s", "i", "n", "x">>, <<"p", "i", "2">>, <<"e", "1">>, <<"s", "i">>,
     <<"S", "i", "n">>, <<"P", "I">>, <<"_", "e">>, <<"e", "_">>, <<"e", "e">>,
     <<"s", "q", "r">>, <<"x">>}

NameUse(chars, form) == [chars |-> chars, form |-> form]

NameUses ==
    {NameUse(chars, form) : chars \in FunctionSpellings \cup NearSpellings,
                            form \in {"read", "assign", "add"}}

NameText(u) ==
    CASE u.form = "read" -> u.chars
      [] u.form = "assign" -> u.chars \o <<" ", "=", " ", "5">>
      [] u.form = "add" -> u.chars \o <<" ", "+", " ", "1">>

NameSnapshots ==
    {EmptyMap, [name \in {Spell(chars) : chars \in NearSpellings} |-> Num(7)]}

NameInit ==
    /\ variables \in NameSnapshots
    /\ entry \in {<<RawStmt(NameText(u))>> : u \in NameUses}
    /\ line = Trim(RenderLine(entry))
    /\ result = NoResult
    /\ stderr = NoPanic
    /\ pc = "read"
    /\ nlines = 1
    /\ lex = NoLex
    /\ self = NoParser
    /\ stmt = NoStmt
    /\ sessions = <<>>
    /\ BackendAbsent

NameNext == EvaluateLine \/ PrintResult

NameSpec == NameInit /\ [][NameNext]_vars

(***************************************************************************)
(* ParseSpec: Parser::parse run step by step on a line and a snapshot: the *)
(* lookahead of statement is taken apart into its save, its call of        *)
(* next_token and its restore; the branch taken after it, assignment or    *)
(* expr, and the ';' that parse eats after a statement are one step each.  *)
(* A panic unwinds to the caller of parse: the run is then at "done".      *)
(***************************************************************************)
\* Lines typed beside the statements of EvalSpec: an '=' after a number,
\* within parentheses, after a minus and a name, after a builtin name, and
\* after the value assigned; a name alone; a lookahead that fails.
LookaheadFragments ==
    {RawStmt(<<"2", " ", "=", " ", "3">>),
     RawStmt(<<"(", "x", " ", "=", " ", "5", ")">>),
     RawStmt(<<"-", "x", " ", "=", " ", "5">>),
     RawStmt(<<"e", " ", "=", " ", "5">>),
     RawStmt(<<"x", "=", "x", "=", "5">>),
     RawStmt(<<"x", " ", "$">>),
     RawStmt(<<"x", " ", "=">>),
     RawStmt(<<"x", ";">>)}

ParseEntries ==
    {<<st>> : st \in Statements \cup LookaheadFragments}
    \cup {<<a, b>> : a \in {Stmt("x", <<"+", "x", "1">>, <<>>),
                            Stmt("y", <<"x">>, <<>>),
                            Stmt("", <<"z">>, <<>>)},
                     b \in {Stmt("x", <<"+", "x", "1">>, <<>>),
                            Stmt("", <<"y">>, <<>>)}}
    \cup ExamplePrograms

\* Where the run goes on after a step that left the parser p.
After(p, at) == IF Panicked(p) THEN "done" ELSE at

\* statement, lines 530-531: the lexer and the token are saved.
statement_save(p) == Frame("look", p.lexer, p.current_token, FALSE, Zero)

\* statement, line 534: current_token takes what next_token returns.
statement_look(p) == eat_next(p, next_token(p.lexer))

\* A faulty variant of statement_is_assignment: every statement that starts
\* with an identifier is taken for an assignment.
statement_is_assignment_always(p) == ~Panicked(p)

\* statement, line 535: matches!(self.current_token, Token::Assign), p
\* being the parser after the lookahead.
statement_is_assignment(p) == ~Panicked(p) /\ p.current_token.kind = "Assign"

\* A faulty variant of statement_restore: the lexer is put back to the
\* start of the input instead of the place saved.
statement_restore_rewind(p, saved_lexer, saved_token) ==
    [p EXCEPT !.lexer = Lexer_new(saved_lexer.input),
              !.current_token = saved_token]

\* A faulty variant of statement_restore: the lexer is restored and the
\* token is not.
statement_restore_lexer(p, saved_lexer, saved_token) ==
    [p EXCEPT !.lexer = saved_lexer]

\* statement, lines 538-539: the lexer and the token saved are put back.
statement_restore(p, saved_lexer, saved_token) ==
    [p EXCEPT !.lexer = saved_lexer, !.current_token = saved_token]

\* The run goes on from the parser and the value r holds.
Proceed(r, at) ==
    /\ self' = r.p
    /\ stmt' = [stmt EXCEPT !.at = After(r.p, at), !.result = r.v]

StatementSave ==
    /\ pc = "parsing"
    /\ stmt.at = "statement"
    /\ self.current_token.kind = "Identifier"
    /\ stmt' = [statement_save(self) EXCEPT !.result = stmt.result]
    /\ UNCHANGED <<variables, line, entry, result, stderr, pc, nlines, lex,
                   self, sessions, backend>>

StatementLook ==
    /\ pc = "parsing"
    /\ stmt.at = "look"
    /\ \E p \in {statement_look(self)} :
          /\ self' = p
          /\ stmt' = [stmt EXCEPT !.at = After(p, "restore"),
                                  !.is_assignment = statement_is_assignment(p)]
    /\ UNCHANGED <<variables, line, entry, result, stderr, pc, nlines, lex,
                   sessions, backend>>

StatementRestore ==
    /\ pc = "parsing"
    /\ stmt.at = "restore"
    /\ self' = statement_restore(self, stmt.saved_lexer, stmt.saved_token)
    /\ stmt' = [stmt EXCEPT !.at = "branch"]
    /\ UNCHANGED <<variables, line, entry, result, stderr, pc, nlines, lex,
                   sessions, backend>>

\* statement, lines 541-543.
StatementAssignment ==
    /\ pc = "parsing"
    /\ stmt.at = "branch"
    /\ stmt.is_assignment
    /\ Proceed(assignment(self), "semicolon")
    /\ UNCHANGED <<variables, line, entry, result, stderr, pc, nlines, lex,
                   sessions, backend>>

\* statement, line 547.
StatementExpr ==
    /\ pc = "parsing"
    /\ \/ stmt.at = "statement" /\ self.current_token.kind # "Identifier"
       \/ stmt.at = "branch" /\ ~stmt.is_assignment
    /\ Proceed(expr(self), "semicolon")
    /\ UNCHANGED <<variables, line, entry, result, stderr, pc, nlines, lex,
                   sessions, backend>>

\* parse, lines 568-582: the ';' after a statement is eaten, and the loop
\* goes round again unless the input ends there.
ParseSemicolon ==
    /\ pc = "parsing"
    /\ stmt.at = "semicolon"
    /\ IF self.current_token.kind = "Semicolon"
       THEN \E p \in {eat(self, "Semicolon")} :
               /\ self' = p
               /\ stmt' = [stmt EXCEPT !.at =
                              IF p.current_token.kind # "EOF"
                              THEN After(p, "statement") ELSE "done"]
       ELSE /\ stmt' = [stmt EXCEPT !.at = "done"]
            /\ UNCHANGED self
    /\ UNCHANGED <<variables, line, entry, result, stderr, pc, nlines, lex,
                   sessions, backend>>

\* cli.rs, lines 106-117: parse has returned or panicked, and what
\* catch_unwind caught is matched.
ParseReturn ==
    /\ pc = "parsing"
    /\ stmt.at = "done"
    /\ \E r \in {evaluate_match(variables, Ret(self, stmt.result))} :
          /\ variables' = r.variables
          /\ result' = r.result
          /\ stderr' = r.panic
    /\ pc' = "evaluated"
    /\ UNCHANGED <<line, entry, nlines, lex, self, stmt, sessions, backend>>

\* parse is called on the parser that Parser::new returned, seeded.
ParseInit ==
    /\ variables \in Snapshots
    /\ entry \in ParseEntries
    /\ line = Trim(RenderLine(entry))
    /\ result = NoResult
    /\ stderr = NoPanic
    /\ pc = "parsing"
    /\ nlines = 1
    /\ lex = NoLex
    /\ self = set_variables(Parser_new(Lexer_new(line)), variables)
    /\ ~Panicked(self)
    /\ stmt = [NoStmt EXCEPT !.at = "statement"]
    /\ sessions = <<>>
    /\ BackendAbsent

ParseNext ==
    \/ StatementSave
    \/ StatementLook
    \/ StatementRestore
    \/ StatementAssignment
    \/ StatementExpr
    \/ ParseSemicolon
    \/ ParseReturn

ParseSpec == ParseInit /\ [][ParseNext]_vars

(***************************************************************************)
(* NumSpec: one line with one run of digits and decimal points, alone or   *)
(* as an operand, typed into a fresh session, is evaluated.  A run is '1'  *)
(* and up to MaxRun - 1 characters out of '2' and '.'.                     *)
(***************************************************************************)
MaxRun == 4

RECURSIVE RunTails(_)
RunTails(n) ==
    IF n = 0 THEN {<<>>}
    ELSE RunTails(n - 1)
         \cup {Append(t, ch) : t \in RunTails(n - 1), ch \in {"2", "."}}

NumberRuns == {<<"1">> \o t : t \in RunTails(MaxRun - 1)}

NumberContexts == {"alone", "plus", "times", "minus"}

\* The line that holds the run in the context.
NumberLine(run, ctx) ==
    CASE ctx = "alone" -> run
      [] ctx = "plus" -> run \o <<" ", "+", " ", "4">>
      [] ctx = "times" -> <<"3", " ", "*", " ">> \o run
      [] ctx = "minus" -> <<"7", " ", "-", " ">> \o run

NumInit ==
    /\ variables = EmptyMap
    /\ entry \in {<<RawStmt(NumberLine(run, ctx))>> :
                      run \in NumberRuns, ctx \in NumberContexts}
    /\ line = Trim(RenderLine(entry))
    /\ result = NoResult
    /\ stderr = NoPanic
    /\ pc = "read"
    /\ nlines = 1
    /\ lex = NoLex
    /\ self = NoParser
    /\ stmt = NoStmt
    /\ sessions = <<>>
    /\ BackendAbsent

NumNext == EvaluateLine \/ PrintResult

NumSpec == NumInit /\ [][NumNext]_vars

(***************************************************************************)
(* LiveSpec: a text is lexed to its end by a lexer alone, or a line is     *)
(* parsed step by step.  The program is sequential and nothing suspends    *)
(* it: a call that can be made is made.                                    *)
(***************************************************************************)
LiveInit == LexInit \/ ParseInit

LiveNext == NextToken \/ ParseNext

\* statement is about to call assignment or expr.
AtExpression ==
    /\ pc = "parsing"
    /\ \/ stmt.at = "branch"
       \/ stmt.at = "statement" /\ self.current_token.kind # "Identifier"

\* Weak fairness of each step.  For StatementAssignment and StatementExpr
\* it is written out: one of the two is enabled exactly when AtExpression
\* holds, and it is the step that leaves that place of statement.
LiveSpec ==
    /\ LiveInit
    /\ [][LiveNext]_vars
    /\ WF_vars(NextToken)
    /\ WF_vars(StatementSave)
    /\ WF_vars(StatementLook)
    /\ WF_vars(StatementRestore)
    /\ WF_vars(ParseSemicolon)
    /\ WF_vars(ParseReturn)
    /\ ([]<>~AtExpression \/ []<><<AtExpression /\ stmt'.at # stmt.at>>_vars)

(***************************************************************************)
(* Reference notions the properties below are stated with.                 *)
(***************************************************************************)
\* The names the statements of stmts assign.
AssignedNames(stmts) == {stmts[i].lhs : i \in 1..Len(stmts)} \ {""}

\* Every statement of stmts is a tree, and all but the last end there: the
\* evaluation reaches each read of each tree unless an earlier read failed.
Readable(stmts) ==
    /\ stmts # <<>>
    /\ \A i \in 1..Len(stmts) :
          stmts[i].rhs # <<>> /\ (i < Len(stmts) => stmts[i].raw = <<>>)

\* The first name the statements of stmts read that is bound neither by
\* env nor by an earlier statement ("" if there is none).
FirstUndefined(stmts, env) == RefRun(stmts, env, Zero).undef

\* The panics of next_token called right after an occurrence of name in text.
PanicsAfter(text, name) ==
    {next_token([input |-> text, position |-> i,
                 current_char |-> Get(text, i)]).panic :
        i \in {j \in 1..Len(text) : text[j] = name}} \ {NoPanic}

\* The kinds of the tokens of the text l is at, up to EOF, or up to the
\* character the lexer fails on ("LexError").
RECURSIVE TokenKinds(_, _)
TokenKinds(l, acc) ==
    LET r == next_token(l)
    IN IF Panicked(r) THEN Append(acc, "LexError")
       ELSE IF r.token.kind = "EOF" THEN Append(acc, "EOF")
       ELSE TokenKinds(r.lexer, Append(acc, r.token.kind))

\* The grammar of programs, over token kinds ks that end with "EOF" or
\* "LexError".  Each recogniser is given the index of the first token of
\* the phrase and yields the index that follows the phrase, 0 if there is
\* no such phrase.
RECURSIVE RecExpression(_, _), RecUnary(_, _), RecPower(_, _)
RECURSIVE RecTermTail(_, _), RecExpressionTail(_, _), RecProgramTail(_, _)

RecClose(ks, j) == IF j > 0 /\ ks[j] = "RightParen" THEN j + 1 ELSE 0

RecPrimary(ks, i) ==
    CASE ks[i] \in {"Number", "Identifier"} -> i + 1
      [] ks[i] = "Function" ->
           IF ks[i + 1] # "LeftParen" THEN 0
           ELSE IF ks[i + 2] = "RightParen" THEN i + 3
           ELSE RecClose(ks, RecExpression(ks, i + 2))
      [] ks[i] = "LeftParen" -> RecClose(ks, RecExpression(ks, i + 1))
      [] OTHER -> 0

RecUnary(ks, i) ==
    IF ks[i] = "Minus" THEN RecUnary(ks, i + 1) ELSE RecPrimary(ks, i)

RecPowerTail(ks, j) ==
    IF j > 0 /\ ks[j] = "Power" THEN RecPower(ks, j + 1) ELSE j

RecPower(ks, i) == RecPowerTail(ks, RecUnary(ks, i))

RecTermTail(ks, j) ==
    IF j > 0 /\ ks[j] \in {"Multiply", "Divide", "Modulo"}
    THEN RecTermTail(ks, RecPower(ks, j + 1)) ELSE j

RecTerm(ks, i) == RecTermTail(ks, RecPower(ks, i))

RecExpressionTail(ks, j) ==
    IF j > 0 /\ ks[j] \in {"Plus", "Minus"}
    THEN RecExpressionTail(ks, RecTerm(ks, j + 1)) ELSE j

RecExpression(ks, i) == RecExpressionTail(ks, RecTerm(ks, i))

RecStatement(ks, i) ==
    IF ks[i] = "Identifier" /\ ks[i + 1] = "Assign"
    THEN RecExpression(ks, i + 2)
    ELSE RecExpression(ks, i)

RecProgramTail(ks, j) ==
    IF j > 0 /\ ks[j] = "Semicolon"
    THEN RecProgramTail(ks, RecStatement(ks, j + 1)) ELSE j

RecProgram(ks) == RecProgramTail(ks, RecStatement(ks, 1))

\* text is a sentence of program := statement (';' statement)*.
IsSentence(text) ==
    LET ks == TokenKinds(Lexer_new(text), <<>>)
    IN ks[Len(ks)] = "EOF" /\ RecProgram(ks) = Len(ks)

\* The words of text: its maximal runs of characters other than the space.
RECURSIVE Words(_, _, _)
Words(text, cur, acc) ==
    IF text = <<>> THEN (IF cur = <<>> THEN acc ELSE Append(acc, cur))
    ELSE IF Head(text) = " "
    THEN Words(Tail(text), <<>>, IF cur = <<>> THEN acc ELSE Append(acc, cur))
    ELSE Words(Tail(text), Append(cur, Head(text)), acc)

\* ws is a chain a op b op c ... of number literals and operators of ops,
\* without parentheses.
IsChain(ws, ops) ==
    /\ Len(ws) >= 3
    /\ Len(ws) % 2 = 1
    /\ \A i \in 1..Len(ws) :
          IF i % 2 = 1
          THEN \A j \in 1..Len(ws[i]) : ws[i][j] \in AsciiDigits
          ELSE Len(ws[i]) = 1 /\ ws[i][1] \in ops

WordValue(w) == Num(DigitsValue(w, 0))

\* ((a op b) op c) ..., acc being the value of the chain before word i.
RECURSIVE FoldLeft(_, _, _)
FoldLeft(ws, i, acc) ==
    IF i > Len(ws) THEN acc
    ELSE FoldLeft(ws, i + 2, ApplyOp(ws[i - 1][1], acc, WordValue(ws[i])))

\* a op (b op (c ...)), from word i on.
RECURSIVE FoldRight(_, _)
FoldRight(ws, i) ==
    IF i = Len(ws) THEN WordValue(ws[i])
    ELSE ApplyOp(ws[i + 1][1], WordValue(ws[i]), FoldRight(ws, i + 2))

(***************************************************************************)
(* Properties.                                                             *)
(***************************************************************************)
\* C1: commit on success only.  Whenever the evaluation of a line against
\* the snapshot S fails, the session's snapshot after the call is S, even
\* if assignments earlier in the line had run before the failing statement.
C1_CommitOnSuccessOnly ==
    [][pc = "read" /\ result'.kind # "Ok" => variables' = variables]_vars

\* 'x = 1; y = z' failed against the empty snapshot, the parser's own table
\* holding x = 1 by then, and the session's snapshot is still empty.
C1_FailedAfterAssignment ==
    /\ pc = "evaluated"
    /\ result = ErrResult
    /\ line = <<"x", " ", "=", " ", "1", ";", " ", "y", " ", "=", " ", "z">>
    /\ variables = EmptyMap
    /\ parse(set_variables(Parser_new(Lexer_new(line)), variables)).p.variables
          = [name \in {"x"} |-> Num(1)]

\* C2: after a successful evaluation of a line against the snapshot S the
\* session's snapshot is S overridden by the line's assignments in program
\* order; a name of S the line does not assign keeps its value, and no name
\* of S is removed.
C2_SnapshotOverridden ==
    [][pc = "read" /\ result'.kind = "Ok" =>
          /\ \A name \in DOMAIN variables :
                /\ name \in DOMAIN variables'
                /\ name \notin AssignedNames(entry)
                      => variables'[name] = variables[name]
          /\ WellFormed(entry)
                => variables' = RefRun(entry, variables, Zero).env]_vars

\* 'x = x + 1; x = x + 1' ran against {x: 1, y: 2}: x is 3, y is kept.
C2_OverriddenTwice ==
    /\ pc = "evaluated"
    /\ result = OkResult(Num(3))
    /\ entry = <<Stmt("x", <<"+", "x", "1">>, <<>>),
                 Stmt("x", <<"+", "x", "1">>, <<>>)>>
    /\ variables = [name \in {"x", "y"} |-> IF name = "x" THEN Num(3) ELSE Num(2)]

\* C3: no evaluation error is fatal to the process.  Every panic raised for
\* a line, the one raised while the parser is built and primed with its
\* first token included, is caught and reported as the error of that line,
\* and the loop goes on to the next line.
C3_NoErrorIsFatal ==
    /\ pc # "aborted"
    /\ stderr # NoPanic => pc = "evaluated" /\ result = ErrResult

\* The line '$ 2' ended the process.
C3_Aborted ==
    /\ pc = "aborted"
    /\ line = <<"$", " ", "2">>
    /\ stderr = Panic("UnexpectedCharacter", "$", "")

\* C4: a result is returned only when the whole token stream of the line,
\* up to EOF, is a sentence of program := statement (';' statement)*;
\* tokens left over after a complete statement make the call fail.
C4_ResultOnlyForSentences ==
    pc = "evaluated" /\ result.kind = "Ok" => IsSentence(line)

\* '2 3' was evaluated to 2.
C4_LeftoverIgnored ==
    /\ pc = "evaluated"
    /\ line = <<"2", " ", "3">>
    /\ result = OkResult(Num(2))

\* The characters that start a token.
StartsToken(ch) ==
    is_ascii_digit(ch) \/ is_ascii_alphabetic(ch) \/ ch = "_" \/ ch \in SingleChars

\* C5: when the cursor of the lexer, whitespace skipped, is on a character
\* that starts no token, next_token fails with the lexical error and the
\* cursor does not pass the character; and the evaluation of '2 $ 3' fails
\* with the lexical error for '$'.
C5_UnrecognizedCharacterFails ==
    [][/\ \A l \in {skip_whitespace(lex.lexer)} :
             l.current_char # None /\ ~StartsToken(l.current_char[1])
                => /\ lex'.panic.kind = "UnexpectedCharacter"
                   /\ lex'.lexer.position <= l.position
                   /\ lex'.lexer.current_char # None
                   /\ ~StartsToken(lex'.lexer.current_char[1])
       /\ \A r \in {evaluate_expression(EmptyMap, <<"2", " ", "$", " ", "3">>)} :
             /\ r.result = ErrResult
             /\ r.panic = Panic("UnexpectedCharacter", "$", "")]_vars

\* In '2 $', after the token 2, next_token failed on '$' and the cursor is
\* still on it.
C5_StoppedAtCharacter ==
    /\ line = <<"2", " ", "$">>
    /\ lex.panic = Panic("UnexpectedCharacter", "$", "")
    /\ lex.lexer.position = 2
    /\ lex.lexer.current_char = Some("$")

\* C6: operator precedence.  The value of a well-formed expression is that
\* of the reference evaluation of its tree, in which '^' binds tighter than
\* '*', '/', '%', these bind tighter than '+', '-', and parentheses
\* override both: '2 + 3 * 4' is 14, '(2 + 3) * 4' is 20, '10 % 3 + 2' is
\* 3 and '2 ^ 3 * 4' is 32.
C6_Precedence ==
    pc = "evaluated" =>
       /\ result = OkResult(RefTree(entry[1].rhs, EmptyMap).v)
       /\ line = <<"2", " ", "+", " ", "3", " ", "*", " ", "4">>
             => result = OkResult(Num(14))
       /\ line = <<"(", "2", " ", "+", " ", "3", ")", " ", "*", " ", "4">>
             => result = OkResult(Num(20))
       /\ line = <<"1", "0", " ", "%", " ", "3", " ", "+", " ", "2">>
             => result = OkResult(Num(3))
       /\ line = <<"2", " ", "^", " ", "3", " ", "*", " ", "4">>
             => result = OkResult(Num(32))

\* '(2 + 3) * 4' was evaluated to 20.
C6_ParenthesesOverride ==
    /\ pc = "evaluated"
    /\ line = <<"(", "2", " ", "+", " ", "3", ")", " ", "*", " ", "4">>
    /\ result = OkResult(Num(20))

\* C7: exponentiation is right-associative.  A chain a ^ b ^ c ... without
\* parentheses has the value a ^ (b ^ (c ...)); '2 ^ 3 ^ 2' is 512, not 64.
C7_PowerRightAssociative ==
    pc = "evaluated" /\ IsChain(Words(line, <<>>, <<>>), {"^"}) =>
       /\ result = OkResult(FoldRight(Words(line, <<>>, <<>>), 1))
       /\ line = <<"2", " ", "^", " ", "3", " ", "^", " ", "2">>
             => result = OkResult(Num(512))

\* '2 ^ 3 ^ 2' was evaluated to 512.
C7_TwoThreeTwo ==
    /\ pc = "evaluated"
    /\ line = <<"2", " ", "^", " ", "3", " ", "^", " ", "2">>
    /\ result = OkResult(Num(512))

\* C8: '*', '/', '%' among themselves, and '+', '-' among themselves, fold
\* from the left: a chain a op1 b op2 c ... at one level has the value
\* ((a op1 b) op2 c) ...; '10 / 2 / 5' is 1 and '10 - 3 - 2' is 5.
C8_LeftToRightFold ==
    pc = "evaluated" =>
       \A ops \in {{"*", "/", "%"}, {"+", "-"}} :
          IsChain(Words(line, <<>>, <<>>), ops) =>
             /\ result = OkResult(FoldLeft(Words(line, <<>>, <<>>), 3,
                                           WordValue(Words(line, <<>>, <<>>)[1])))
             /\ line = <<"1", "0", " ", "/", " ", "2", " ", "/", " ", "5">>
                   => result = OkResult(Num(1))
             /\ line = <<"1", "0", " ", "-", " ", "3", " ", "-", " ", "2">>
                   => result = OkResult(Num(5))

\* '10 / 2 / 5' was evaluated to 1.
C8_TenTwoFive ==
    /\ pc = "evaluated"
    /\ line = <<"1", "0", " ", "/", " ", "2", " ", "/", " ", "5">>
    /\ result = OkResult(Num(1))

\* C9, as stated: the read of a name the symbol table does not bind always
\* fails with the undefined-variable error that names it.
C9_UndefinedAlwaysNamed ==
    [][pc = "read" /\ Readable(entry) /\ FirstUndefined(entry, variables) # "" =>
          /\ result'.kind = "Err"
          /\ stderr' = Panic("UndefinedVariable",
                             FirstUndefined(entry, variables), "")]_vars

\* C9: the read of a name the symbol table does not bind always fails, and
\* no value is put in its place: it fails with the undefined-variable error
\* that names it unless the lexer fails on the character that follows the
\* name, and then it fails with that lexical error.
C9_UndefinedFails ==
    [][pc = "read" /\ Readable(entry) /\ FirstUndefined(entry, variables) # "" =>
          /\ result'.kind = "Err"
          /\ \/ stderr' = Panic("UndefinedVariable",
                                FirstUndefined(entry, variables), "")
             \/ /\ stderr'.kind = "UnexpectedCharacter"
                /\ stderr' \in PanicsAfter(line, FirstUndefined(entry, variables))]_vars

\* 'x + 1' failed against a snapshot without x, with the error naming x.
C9_UndefinedNamed ==
    /\ pc = "evaluated"
    /\ line = <<"x", " ", "+", " ", "1">>
    /\ "x" \notin DOMAIN variables
    /\ result = ErrResult
    /\ stderr = Panic("UndefinedVariable", "x", "")

\* C10: the statements of a line run in textual order, a name assigned by
\* a statement is visible to the statements after it, and the result is the
\* value of the last statement: 'x = 5; y = x + 2; x * y' is 35 and leaves
\* x = 5 and y = 7.
C10_StatementsInOrder ==
    [][pc = "read" /\ WellFormed(entry) /\ FirstUndefined(entry, variables) = "" =>
          /\ result' = OkResult(RefRun(entry, variables, Zero).v)
          /\ line = <<"x", " ", "=", " ", "5", ";", " ",
                      "y", " ", "=", " ", "x", " ", "+", " ", "2", ";", " ",
                      "x", " ", "*", " ", "y">>
                => /\ result' = OkResult(Num(35))
                   /\ variables'["x"] = Num(5)
                   /\ variables'["y"] = Num(7)]_vars

\* 'x = 5; y = x + 2; x * y' was evaluated to 35, leaving x = 5 and y = 7.
C10_DocumentedProgram ==
    /\ pc = "evaluated"
    /\ line = <<"x", " ", "=", " ", "5", ";", " ",
                "y", " ", "=", " ", "x", " ", "+", " ", "2", ";", " ",
                "x", " ", "*", " ", "y">>
    /\ result = OkResult(Num(35))
    /\ variables = [name \in {"x", "y"} |-> IF name = "x" THEN Num(5) ELSE Num(7)]

\* C11: variables persist across the lines of a session.  Between the line
\* that assigns x and a later line that reads it the snapshot keeps x bound
\* to the value assigned: no step but a 'clear' and a successful line that
\* assigns x changes the binding of x, and a line that reads x, evaluated by
\* a lexer and a parser of its own, sees the value the snapshot binds to x.
C11_VariablesPersist ==
    [][/\ \A name \in DOMAIN variables :
             \/ pc = "read" /\ line = <<"c", "l", "e", "a", "r">>
             \/ pc = "read" /\ result'.kind = "Ok" /\ name \in AssignedNames(entry)
             \/ name \in DOMAIN variables' /\ variables'[name] = variables[name]
       /\ pc = "read" /\ ~IsCommand(line) /\ WellFormed(entry)
          /\ FirstUndefined(entry, variables) = ""
             => result' = OkResult(RefRun(entry, variables, Zero).v)]_vars

\* The third line of a session, 'x + 1', was evaluated to 2 with x and y
\* bound to 1: the session started with no variable, so that the two lines
\* before it assigned x and y, the second of them reading what the first
\* had assigned.
C11_ThirdLineSeesFirst ==
    /\ nlines = 3
    /\ pc = "evaluated"
    /\ line = <<"x", " ", "+", " ", "1">>
    /\ result = OkResult(Num(2))
    /\ variables = [name \in {"x", "y"} |-> Num(1)]

\* C12: a line without an assignment is read-only.  When the text of the
\* line holds no '=' and its evaluation succeeds, the snapshot after the
\* evaluation is the snapshot before it: no name is bound, unbound or
\* given another value by reading it.
C12_ReadOnlyKeepsSnapshot ==
    [][pc = "read" /\ (\A i \in 1..Len(line) : line[i] # "=")
          /\ result'.kind = "Ok" => variables' = variables]_vars

\* 'x + 1' was evaluated to 2 against the snapshot x = 1, y = 2, which is
\* still the snapshot.
C12_ReadXPlusOne ==
    /\ pc = "evaluated"
    /\ line = <<"x", " ", "+", " ", "1">>
    /\ result = OkResult(Num(2))
    /\ variables = [name \in {"x", "y"} |-> IF name = "x" THEN Num(1) ELSE Num(2)]
    /\ nlines = 1

\* A session that runs alone: the lines of texts evaluated in order from
\* the state s, each by evaluate_expression; a line that leaves the call by
\* an uncaught panic ends the run.
RECURSIVE RunAlone(_, _)
RunAlone(texts, s) ==
    IF texts = <<>> \/ s.aborted THEN s
    ELSE LET r == evaluate_expression(s.variables, Head(texts))
         IN RunAlone(Tail(texts),
                     [variables |-> r.variables, result |-> r.result,
                      stderr |-> r.panic, aborted |-> r.uncaught])

Alone(texts) ==
    RunAlone(texts, [variables |-> EmptyMap, result |-> NoResult,
                     stderr |-> NoPanic, aborted |-> FALSE])

\* C17: two sessions share no state.  Whatever the interleaving of the
\* steps of their evaluations, each session holds the snapshot, the result
\* and the error it would hold had it evaluated its own lines alone; while
\* it is parsing a line, its snapshot is the one its earlier lines left
\* and its parser is seeded with that snapshot.
C17_SessionsIndependent ==
    \A i \in SessionIds :
        LET s == sessions[i]
            alone == Alone(s.history)
        IN IF s.pc = "parsing"
           THEN LET earlier == Alone(SubSeq(s.history, 1, Len(s.history) - 1))
                IN /\ s.variables = earlier.variables
                   /\ get_variables(s.parser[1]) = earlier.variables
           ELSE /\ s.variables = alone.variables
                /\ s.result = alone.result
                /\ s.stderr = alone.stderr
                /\ (s.pc = "aborted") = alone.aborted

\* Session 1 evaluated 'x = 1' and 'x + 1' and holds x = 1; session 2
\* evaluated 'x = 1' and is parsing 'x = x + 1', which will leave it x = 2.
C17_SideBySide ==
    /\ sessions[1].pc = "idle"
    /\ sessions[1].history = <<<<"x", " ", "=", " ", "1">>,
                                <<"x", " ", "+", " ", "1">>>>
    /\ sessions[1].result = OkResult(Num(2))
    /\ sessions[1].variables = [name \in {"x"} |-> Num(1)]
    /\ sessions[2].pc = "parsing"
    /\ sessions[2].history = <<<<"x", " ", "=", " ", "1">>,
                                <<"x", " ", "=", " ", "x", " ", "+", " ", "1">>>>
    /\ sessions[2].variables = [name \in {"x"} |-> Num(1)]

\* C14: the arity of the builtins is fixed.  A call of a builtin succeeds
\* exactly when the name is followed by '(', by no argument for pi and e
\* and by one argument for every other builtin, and by ')'; a bare name,
\* a name followed by a literal, 'pi(1)', 'sin()' and 'sin(1, 2)' fail
\* with the panic of eat or of factor, caught and returned as an error.
C14_FixedArity ==
    /\ pc # "aborted"
    /\ pc = "evaluated" =>
          \A c \in Calls :
              line = CallText(c) =>
                  IF c.open /\ Len(c.args) = (IF Spell(c.chars) \in {"pi", "e"}
                                               THEN 0 ELSE 1)
                  THEN /\ result.kind = "Ok"
                       /\ stderr = NoPanic
                       /\ Spell(c.chars) = "sqrt" /\ c.args = <<"4">>
                             => result.value = Num(2)
                  ELSE /\ result = ErrResult
                       /\ stderr.kind \in {"Expected", "UnexpectedTokenInFactor"}
                       /\ ~c.open => stderr.arg = "LeftParen"
                       /\ variables = EmptyMap

\* 'pi(1)' failed: eat expected the ')' and found the number.
C14_PiOfOne ==
    /\ pc = "evaluated"
    /\ line = <<"p", "i", "(", "1", ")">>
    /\ result = ErrResult
    /\ stderr = Panic("Expected", "RightParen", "Number")

\* C15: no numeric condition is an error.  A line that divides or takes a
\* remainder by zero, raises zero to a negative power or calls a builtin
\* outside its domain is evaluated as IEEE 754 arithmetic evaluates it:
\* the result is Ok, the statements after the division are evaluated, and
\* the assignments of the line, the one of an infinity or a NaN included,
\* are in the snapshot.  'x = 1 / 0; y = 2' is 2 and leaves x infinite and
\* y = 2; 'x = sqrt(0 - 1); y = 2' is 2 and leaves x NaN.
C15_NoNumericError ==
    /\ pc # "aborted"
    /\ pc = "evaluated" =>
          /\ result.kind = "Ok"
          /\ stderr = NoPanic
          /\ WellFormed(entry) =>
                /\ result = OkResult(RefRun(entry, EmptyMap, Zero).v)
                /\ variables = RefRun(entry, EmptyMap, Zero).env
          /\ ~WellFormed(entry) =>
                /\ result = OkResult(Num(2))
                /\ variables = [name \in {"x", "y"} |->
                                   IF name = "x" THEN NaN ELSE Num(2)]
          /\ line = <<"x", " ", "=", " ", "1", " ", "/", " ", "0", ";", " ",
                      "y", " ", "=", " ", "2">>
                => /\ result = OkResult(Num(2))
                   /\ variables = [name \in {"x", "y"} |->
                                      IF name = "x" THEN Inf(1) ELSE Num(2)]
          /\ line = <<"1", " ", "%", " ", "0">> => result = OkResult(NaN)

\* 'x = 1 / 0; y = x + 1' was evaluated: the result and both variables are
\* the positive infinity.
C15_InfinityCommitted ==
    /\ pc = "evaluated"
    /\ line = <<"x", " ", "=", " ", "1", " ", "/", " ", "0", ";", " ",
                "y", " ", "=", " ", "x", " ", "+", " ", "1">>
    /\ result = OkResult(Inf(1))
    /\ variables = [name \in {"x", "y"} |-> Inf(1)]

\* C16: the end of the input where an operand is due is a parse error.  A
\* line that ends after a binary operator, after a unary minus, after a
\* '(', after the '=' of an assignment or after the '(' of a function is
\* never given a result: its evaluation fails with the panic factor raises
\* on EOF (eat's, expecting ')', after 'pi('), caught and returned as the
\* error, and binds nothing.  An empty or whitespace-only line is skipped
\* by run without a result, and evaluate_expression applied to such a
\* text fails with the panic of factor on EOF.
C16_EndOfInputFails ==
    /\ pc # "aborted"
    /\ result.kind # "Ok"
    /\ variables = EmptyMap
    /\ pc = "evaluated" =>
          /\ result = ErrResult
          /\ stderr \in {Panic("UnexpectedTokenInFactor", "", "EOF"),
                          Panic("Expected", "RightParen", "EOF")}
    /\ \A text \in WhitespaceTexts :
          /\ evaluate_expression(EmptyMap, text).result = ErrResult
          /\ evaluate_expression(EmptyMap, text).panic
                = Panic("UnexpectedTokenInFactor", "", "EOF")

\* 'x = 2 + (' failed on the end of the input.
C16_AfterParenthesis ==
    /\ pc = "evaluated"
    /\ line = <<"x", " ", "=", " ", "2", " ", "+", " ", "(">>
    /\ result = ErrResult
    /\ stderr = Panic("UnexpectedTokenInFactor", "", "EOF")
    /\ variables = EmptyMap

\* The value of an operand under its minus signs, and of a chain read with
\* each sign bound to its operand alone and '^' grouping to the right.
RECURSIVE SignedValue(_, _)
SignedValue(minus, leaf) ==
    IF minus = 0 THEN LeafValue(leaf) ELSE FNeg(SignedValue(minus - 1, leaf))

RECURSIVE ChainValue(_)
ChainValue(chain) ==
    IF Len(chain) = 1 THEN SignedValue(chain[1].minus, chain[1].leaf)
    ELSE FPow(SignedValue(chain[1].minus, chain[1].leaf), ChainValue(Tail(chain)))

\* C20: unary minus binds tighter than '^'.  A chain of operands joined by
\* '^', each under any number of minus signs, evaluates with every sign
\* applied to its own operand before any power is taken: '-2 ^ 2' is
\* (-2) ^ 2 = 4, '2 ^ -2' is 0.25 and '--2' is 2.
C20_MinusBindsTighter ==
    /\ pc # "aborted"
    /\ pc = "evaluated" =>
          /\ \A chain \in SignedChains :
                line = ChainText(chain) => result = OkResult(ChainValue(chain))
          /\ line = <<"-", "2", " ", "^", " ", "2">> => result = OkResult(Num(4))
          /\ line = <<"2", " ", "^", " ", "-", "2">> => result = OkResult(Fin(1, 1, 4))
          /\ line = <<"-", "-", "2">> => result = OkResult(Num(2))

\* '-2 ^ 2' was evaluated to 4.
C20_MinusTwoSquared ==
    /\ pc = "evaluated"
    /\ line = <<"-", "2", " ", "^", " ", "2">>
    /\ result = OkResult(Num(4))

\* The table a service call is about.
TableOf(call) == IF call.service = "observation" THEN observations ELSE trips

\* The row the call is about is stored and belongs to another user.
NotOwner(call) ==
    /\ find_by_id(TableOf(call), call.id) # None
    /\ find_by_id(TableOf(call), call.id)[1].user_id # call.user_id

\* The row id of the table is stored and a call of its owner is at the
\* write of the operation op on it.
OwnerWrites(table, service, id) ==
    \E c \in 1..MaxCallers :
        /\ calls[c].pc = "write" /\ calls'[c].pc = "idle"
        /\ calls[c].service = service /\ calls[c].id = id
        /\ calls[c].user_id = table[id][1].user_id

Returns(c) == calls[c].pc # "idle" /\ calls'[c].pc = "idle"

\* C19: no two stored users share a username or an email, whatever the
\* interleaving of the register calls, and a register call that returns
\* with its username or its email stored creates no user and fails with
\* 'Username already exists', the username being stored, or with 'Email
\* already exists', the email being stored.
C19_RegisterKeepsUnique ==
    [][/\ \A i, j \in 1..Len(users') :
              i # j => /\ users'[i].username # users'[j].username
                       /\ users'[i].email # users'[j].email
       /\ response' # response
          /\ (\/ username_exists(users, response'.req.username)
              \/ email_exists(users, response'.req.email))
          => /\ users' = users
             /\ \/ /\ response'.result = ServiceErr(<<"Username already exists">>)
                   /\ username_exists(users, response'.req.username)
                \/ /\ response'.result = ServiceErr(<<"Email already exists">>)
                   /\ email_exists(users, response'.req.email)]_vars

\* Two calls registered ann: both found the username free, one created the
\* user, and the other returned the error of the database.
C19_LostRace ==
    /\ pc = "auth"
    /\ users = <<RegisterRequest("ann", "ann@x.org")>>
    /\ response.pc = "returned"
    /\ response.req.username = "ann"
    /\ response.result = UniqueViolation

\* The parser ParseSpec started from.
Started == set_variables(Parser_new(Lexer_new(line)), variables)

\* The run of ParseSpec ends as parse itself does.
ParseAgrees ==
    pc = "parsing" /\ stmt.at = "done"
        => /\ self = parse(Started).p
           /\ ~Panicked(self) => stmt.result = parse(Started).v

\* The parser that statement saved: the lexer and the token of the frame
\* with the symbol table given.
Saved(map) ==
    [lexer |-> stmt.saved_lexer, current_token |-> stmt.saved_token,
     variables |-> map, panic |-> NoPanic]

\* C21: the lookahead of statement consumes nothing.  It saves the lexer and
\* the token as they are; its call of next_token touches neither what is
\* saved nor the symbol table; when that call returns, the restore leaves
\* the lexer (position and current character), the token and the symbol
\* table exactly as they were before the lookahead; the statement is then
\* parsed from the identifier, by assignment or by expr, and the whole run
\* ends as a parse does whose statements decide without moving the lexer.
C21_LookaheadConsumesNothing ==
    [][/\ stmt.at = "statement" /\ stmt'.at = "look"
          => /\ self' = self
             /\ stmt'.saved_lexer = self.lexer
             /\ stmt'.saved_token = self.current_token
       /\ stmt.at = "look"
          => /\ stmt'.saved_lexer = stmt.saved_lexer
             /\ stmt'.saved_token = stmt.saved_token
             /\ self'.variables = self.variables
       /\ stmt.at = "restore"
          => /\ self' = Saved(self.variables)
             /\ self'.lexer.input = line
             /\ self'.lexer.current_char
                    = Get(line, self'.lexer.position)
             /\ self'.current_token.kind = "Identifier"
             /\ stmt'.at = "branch"
       /\ stmt.at = "branch"
          => /\ self = Saved(self.variables)
             /\ \E r \in {IF stmt.is_assignment THEN assignment(self)
                          ELSE expr(self)} :
                   /\ self' = r.p
                   /\ ~Panicked(r.p) => stmt'.result = r.v
       /\ ParseAgrees]_vars

\* In 'x + 1' the lookahead read as far as '+', and the parser is back on
\* the identifier x with the cursor right after it.
C21_BackAtIdentifier ==
    /\ pc = "parsing"
    /\ line = <<"x", " ", "+", " ", "1">>
    /\ stmt.at = "branch"
    /\ ~stmt.is_assignment
    /\ self.current_token = IdentifierTok("x")
    /\ self.lexer.position = 1
    /\ self.lexer.current_char = Some(" ")

\* The statement the parser p is at starts with an identifier followed by '='.
StartsAssignment(p) ==
    /\ p.current_token.kind = "Identifier"
    /\ next_token(p.lexer).panic = NoPanic
    /\ next_token(p.lexer).token.kind = "Assign"

\* C22: a statement is run by assignment exactly when its first token is an
\* identifier and its second is '=', and then no name but that identifier
\* is bound or rebound; every other statement, one that starts with a
\* number, '(', '-' or a builtin name followed by '=' included, is run by
\* expr and leaves the symbol table as it was, whatever '=' it holds.
C22_AssignmentIffNameThenEquals ==
    [][stmt.at \in {"statement", "branch"} /\ stmt'.at \in {"semicolon", "done"}
          => IF StartsAssignment(self)
             THEN /\ self' = assignment(self).p
                  /\ \A name \in DOMAIN self.variables \ {self.current_token.name} :
                        /\ name \in DOMAIN self'.variables
                        /\ self'.variables[name] = self.variables[name]
                  /\ DOMAIN self'.variables
                        \subseteq DOMAIN self.variables \cup {self.current_token.name}
                  /\ ~Panicked(self')
                        => /\ self.current_token.name \in DOMAIN self'.variables
                           /\ self'.variables[self.current_token.name] = stmt'.result
             ELSE /\ self' = expr(self).p
                  /\ ~Panicked(self') => stmt'.result = expr(self).v
                  /\ self'.variables = self.variables]_vars

\* 'e = 5' was run by expr against {x: 1}: the builtin name wants its '(',
\* and nothing is bound to e.
C22_BuiltinNotAssigned ==
    /\ pc = "parsing"
    /\ line = <<"e", " ", "=", " ", "5">>
    /\ stmt.at = "done"
    /\ self.panic = Panic("Expected", "LeftParen", "Assign")
    /\ self.variables = [name \in {"x"} |-> Num(1)]

\* C23: an assignment evaluates its right-hand side against the symbol
\* table as it was before the statement and binds the name afterwards.  On
\* a line of well-formed statements the parser's table, when parse ends, is
\* that of the reference run, in which each tree is evaluated in the
\* environment left by the statements before it: 'x = x + 1' with x bound
\* stores the old value plus one, and with x unbound it fails with the
\* undefined-variable error for x and x is still absent from the table.
C23_RightHandSideFirst ==
    pc = "parsing" /\ stmt.at = "done" /\ WellFormed(entry)
        => \A r \in {RefRun(entry, variables, Zero)} :
              /\ self.variables = r.env
              /\ r.undef # ""
                    => self.panic = Panic("UndefinedVariable", r.undef, "")
              /\ r.undef = "" => ~Panicked(self) /\ stmt.result = r.v

\* 'x = x + 1' failed against {y: 2} on the read of x, and the parser's
\* table holds no x.
C23_StillAbsent ==
    /\ pc = "parsing"
    /\ stmt.at = "done"
    /\ line = <<"x", " ", "=", " ", "x", " ", "+", " ", "1">>
    /\ variables = [name \in {"y"} |-> Num(2)]
    /\ self.panic = Panic("UndefinedVariable", "x", "")
    /\ "x" \notin DOMAIN self.variables

\* The outcome of the use u of a name that is no builtin's, the snapshot
\* holding 7 for the name if it binds it.
NearOutcome(u) ==
    CASE u.form = "assign" ->
           /\ result = OkResult(Num(5))
           /\ Spell(u.chars) \in DOMAIN variables
           /\ variables[Spell(u.chars)] = Num(5)
      [] Spell(u.chars) \notin DOMAIN variables ->
           /\ result = ErrResult
           /\ stderr = Panic("UndefinedVariable", Spell(u.chars), "")
      [] u.form = "read" -> result = OkResult(Num(7))
      [] u.form = "add" -> result = OkResult(Num(8))

KeepCommands ==
    {<<>>, <<"h", "e", "l", "p">>, <<"h">>, <<"v", "a", "r", "s">>,
     <<"v", "a", "r", "i", "a", "b", "l", "e", "s">>}

\* What C25 says of the command words: 'clear' empties the snapshot, 'help',
\* 'vars' and the empty line keep it, and no command word is evaluated: the
\* loop is back at the prompt with no result and no error of its own.
CommandsHandled ==
    /\ pc = "read" /\ line = <<"c", "l", "e", "a", "r">>
          => variables' = EmptyMap /\ pc' = "readline"
    /\ pc = "read" /\ line \in KeepCommands
          => variables' = variables /\ pc' = "readline"
    /\ pc = "read" /\ IsCommand(line)
          => /\ pc' \in {"readline", "exited"}
             /\ result' = result
             /\ stderr' = stderr

\* C25, as stated: 'clear' empties the snapshot, and from then on the read
\* of every name fails with the undefined-variable error until the name is
\* assigned again; 'help', 'vars' and the empty line keep the snapshot; no
\* command word is evaluated as an expression.
C25_ClearThenUndefinedNamed ==
    [][/\ CommandsHandled
       /\ pc = "read" /\ ~IsCommand(line) /\ Readable(entry)
          /\ FirstUndefined(entry, variables) # ""
             => /\ result'.kind = "Err"
                /\ stderr' = Panic("UndefinedVariable",
                                   FirstUndefined(entry, variables), "")]_vars

\* C25: 'clear' empties the snapshot, and from then on the read of every
\* name fails until the name is assigned again, with the undefined-variable
\* error unless the lexer fails on the character after the name; 'help',
\* 'vars' and the empty line keep the snapshot; no command word is
\* evaluated as an expression.
C25_ClearResetsSnapshot ==
    [][/\ CommandsHandled
       /\ pc = "read" /\ ~IsCommand(line) /\ Readable(entry)
          /\ FirstUndefined(entry, variables) # ""
             => /\ result'.kind = "Err"
                /\ variables' = variables
                /\ \/ stderr' = Panic("UndefinedVariable",
                                      FirstUndefined(entry, variables), "")
                   \/ /\ stderr'.kind = "UnexpectedCharacter"
                      /\ stderr' \in PanicsAfter(line, FirstUndefined(entry, variables))]_vars

\* The second line of a session was 'clear': the loop is back at the prompt
\* with an empty snapshot, no result and no error.
C25_Cleared ==
    /\ pc = "readline"
    /\ nlines = 2
    /\ line = <<"c", "l", "e", "a", "r">>
    /\ variables = EmptyMap
    /\ result = NoResult
    /\ stderr = NoPanic

\* The cursor of lexer l is within its input, and current_char is the
\* character of the input at the cursor, None at the end.
CursorInRange(l) ==
    /\ 0 <= l.position
    /\ l.position <= Len(l.input)
    /\ l.current_char = Get(l.input, l.position)

C27_EofRepeats ==
    [][pc # "lexing" =>
          /\ lex.token = EOF
          /\ lex'.token = EOF
          /\ ~Panicked(lex')
          /\ lex'.lexer.position = lex.lexer.position
          /\ lex'.lexer.position = Len(line)]_vars

\* '2+x' was lexed to its end and next_token was called again after the
\* call that returned EOF: it returned EOF, the cursor at 3.
C27_CalledPastEof ==
    /\ pc = "past_eof"
    /\ line = <<"2", "+", "x">>
    /\ lex.token = EOF
    /\ ~Panicked(lex)
    /\ lex.lexer.position = 3

\* What the line that holds a run worth zero in the context evaluates to.
WithZero(ctx) ==
    CASE ctx = "alone" -> Zero
      [] ctx = "plus" -> Num(4)
      [] ctx = "times" -> Zero
      [] ctx = "minus" -> Num(7)

\* C28: a numeric literal is the maximal run of digits and decimal points
\* that starts at a digit.  next_token makes one Number token of the whole
\* run, without an error, and the token is Number(0.0) when the run holds
\* more than one point; the evaluation then goes on with zero for the run
\* and succeeds, while a run with at most one point is not worth zero.
C28_MalformedNumberIsZero ==
    \A run \in NumberRuns, ctx \in NumberContexts :
       line = NumberLine(run, ctx) =>
          /\ \A r \in {next_token(Lexer_new(run \o <<" ", "+", " ", "4">>))} :
                /\ ~Panicked(r)
                /\ r.token.kind = "Number"
                /\ r.lexer.position = Len(run)
                /\ CountDots(run) > 1 <=> r.token.value = Zero
          /\ pc = "evaluated" =>
                /\ stderr = NoPanic
                /\ result.kind = "Ok"
                /\ CountDots(run) > 1 => result = OkResult(WithZero(ctx))
                /\ CountDots(run) <= 1 => result # OkResult(WithZero(ctx))

\* '1.2. + 4', whose literal holds two points, was evaluated to 4.
C28_TwoPointsPlusFour ==
    /\ pc = "evaluated"
    /\ line = <<"1", ".", "2", ".", " ", "+", " ", "4">>
    /\ result = OkResult(Num(4))
    /\ stderr = NoPanic

\* C29, as stated: next_token skips every whitespace character before a
\* token, the carriage return and the other whitespace characters as well
\* as space, tab and newline: what it returns is what it returns from the
\* lexer with the whitespace skipped, and it raises no error for a
\* whitespace character.
C29_AllWhitespaceSkipped ==
    [][/\ lex' = next_token(skip_whitespace(lex.lexer))
       /\ Panicked(lex') => ~is_whitespace(lex'.panic.arg)]_vars

\* In '2' carriage-return '+', after the token 2, next_token failed on the
\* carriage return, the cursor still on it.
C29_CarriageReturnFails ==
    /\ line = <<"2", "\r", "+">>
    /\ lex.panic = Panic("UnexpectedCharacter", "\r", "")
    /\ lex.lexer.position = 1
    /\ lex.lexer.current_char = Some("\r")

\* What parser p has not consumed: the characters after the cursor of its
\* lexer, and its current token unless that is EOF.
Remaining(p) ==
    Len(p.lexer.input) - p.lexer.position
       + (IF p.current_token.kind = "EOF" THEN 0 ELSE 1)

\* The parser Parser::new returns for the lexer at place i of text, seeded.
ParserAt(text, i) ==
    set_variables(Parser_new([input |-> text, position |-> i,
                              current_char |-> Get(text, i)]), variables)

\* One round of the loop of expr, resp. of term, entered by p on an
\* operator of the loop: the operator is eaten and the operand parsed.
ExprRound(p) == term(eat(p, p.current_token.kind)).p
TermRound(p) == power(eat(p, p.current_token.kind)).p

\* Each round of the loops of expr and term that can start at a place of
\* the line fails or leaves less to consume.
RoundsConsume ==
    \A i \in 0..Len(line) :
       \A p \in {ParserAt(line, i)} :
          /\ ~Panicked(p) /\ p.current_token.kind \in {"Plus", "Minus"}
                => \A q \in {ExprRound(p)} :
                      Panicked(q) \/ Remaining(q) < Remaining(p)
          /\ ~Panicked(p)
             /\ p.current_token.kind \in {"Multiply", "Divide", "Modulo"}
                => \A q \in {TermRound(p)} :
                      Panicked(q) \/ Remaining(q) < Remaining(p)

\* The lexing, resp. the evaluation, has ended.
Ended ==
    \/ pc \in {"at_eof", "past_eof"}
    \/ pc = "lexing" /\ Panicked(lex)
    \/ pc = "evaluated" /\ result.kind \in {"Ok", "Err"}

\* C30: every evaluation terminates.  The lexer reaches EOF or fails after
\* finitely many calls, each call that returns a token other than EOF
\* having moved the cursor on by at least one character; each round of the
\* statement loop of parse and of the operator loops of expr and term
\* leaves less to consume unless it fails; and the evaluation ends with a
\* result or with an error.
C30_Terminates ==
    /\ <>Ended
    /\ []RoundsConsume
    /\ [][/\ pc = "lexing" /\ ~Panicked(lex') /\ lex'.token # EOF
             => lex'.lexer.position >= lex.lexer.position + 1
          /\ pc = "parsing" /\ stmt.at # "semicolon" /\ stmt'.at = "semicolon"
             => Remaining(self') < Remaining(self)
          /\ pc = "parsing" /\ stmt.at = "semicolon" /\ stmt'.at = "statement"
             => Remaining(self') < Remaining(self)]_vars

\* A line of two statements was parsed to its end, a read of a name that
\* is not bound failing, and the evaluation returned the error.
C30_EndedInError ==
    /\ pc = "evaluated"
    /\ stmt.at = "done"
    /\ result = ErrResult
    /\ stderr.kind = "UndefinedVariable"
    /\ Len(entry) = 2

=============================================================================
